---------------------------- MODULE Spec2Model ----------------------------
(***************************************************************************)
(* Verification model of the MapleStory Kain verification bot.             *)
(*                                                                         *)
(*   - the pure functions (checkRequirements, parseOCRText) are operators  *)
(*     over texts represented as sequences of one-character strings;      *)
(*   - the recognition pipeline (processScreenshot and what it calls) and  *)
(*     the message handlers are state machines whose steps are the code    *)
(*     between two awaits.                                                 *)
(*                                                                         *)
(* An optional value (null in the code) is a set: {} is null, {v} is v.    *)
(***************************************************************************)
EXTENDS Integers, Sequences, FiniteSets, TLC

(***************************************************************************)
(* Characters and strings                                                  *)
(***************************************************************************)
Null == {}
Some(v) == {v}
Val(o) == CHOOSE v \in o : TRUE

Digit == {"0", "1", "2", "3", "4", "5", "6", "7", "8", "9"}
LowerLetter == {"a", "b", "c", "d", "e", "f", "g", "h", "i", "j", "k", "l", "m",
                "n", "o", "p", "q", "r", "s", "t", "u", "v", "w", "x", "y", "z"}
UpperSeq == <<"A", "B", "C", "D", "E", "F", "G", "H", "I", "J", "K", "L", "M",
              "N", "O", "P", "Q", "R", "S", "T", "U", "V", "W", "X", "Y", "Z">>
LowerSeq == <<"a", "b", "c", "d", "e", "f", "g", "h", "i", "j", "k", "l", "m",
              "n", "o", "p", "q", "r", "s", "t", "u", "v", "w", "x", "y", "z">>
UpperLetter == {UpperSeq[i] : i \in 1..26}
\* \s of a JavaScript regular expression, restricted to the characters used
WS == {" ", "\n", "\t"}
\* \w of a JavaScript regular expression
WordChar == LowerLetter \cup UpperLetter \cup Digit \cup {"_"}

LowerChar(c) ==
  IF c \in UpperLetter THEN LowerSeq[CHOOSE i \in 1..26 : UpperSeq[i] = c] ELSE c

\* String.prototype.toLowerCase
toLowerCase(t) == [i \in 1..Len(t) |-> LowerChar(t[i])]

DigitVal(c) ==
  CASE c = "0" -> 0 [] c = "1" -> 1 [] c = "2" -> 2 [] c = "3" -> 3 [] c = "4" -> 4
    [] c = "5" -> 5 [] c = "6" -> 6 [] c = "7" -> 7 [] c = "8" -> 8 [] c = "9" -> 9

\* parseInt(s, 10) of a non-empty string of digits
RECURSIVE parseInt(_)
parseInt(s) ==
  IF Len(s) = 0 THEN 0
  ELSE 10 * parseInt(SubSeq(s, 1, Len(s) - 1)) + DigitVal(s[Len(s)])

\* s.replace(/\s+/g, ' ')
CollapseWS(t) ==
  LET keep == SelectSeq([i \in 1..Len(t) |-> i],
                        LAMBDA i : t[i] \notin WS \/ i = 1 \/ t[i - 1] \notin WS)
  IN  [k \in 1..Len(keep) |-> IF t[keep[k]] \in WS THEN " " ELSE t[keep[k]]]

\* s.replace(/\s+/g, '')
RemoveWS(t) == SelectSeq(t, LAMBDA c : c \notin WS)

\* s.trim()
Trim(t) ==
  LET body == {i \in 1..Len(t) : t[i] \notin WS}
  IN  IF body = {} THEN <<>>
      ELSE LET lo == CHOOSE i \in body : \A j \in body : i <= j
               hi == CHOOSE i \in body : \A j \in body : i >= j
           IN  SubSeq(t, lo, hi)

\* s.replace(/[^a-z0-9\s]/g, ' ')
BlankNonAlnum(t) ==
  [i \in 1..Len(t) |->
     IF t[i] \in (LowerLetter \cup Digit \cup WS) THEN t[i] ELSE " "]

Max(S) == CHOOSE m \in S : \A n \in S : n <= m
Min(S) == CHOOSE m \in S : \A n \in S : m <= n
Range(s) == {s[i] : i \in 1..Len(s)}

(***************************************************************************)
(* Regular expressions.  A match is [end |-> e, cap |-> c]: e is the index *)
(* after the last matched character (the next lastIndex), c the captured  *)
(* group; end = 0 is "no match at this position".                          *)
(***************************************************************************)
NoMatch == [end |-> 0, cap |-> <<>>]

\* the literal w (lower case), matched case-insensitively at position p
Lit(t, p, w) ==
  /\ p >= 1
  /\ p + Len(w) - 1 <= Len(t)
  /\ \A k \in 1..Len(w) : LowerChar(t[p + k - 1]) = w[k]

\* index of the first character at or after p that is not in class C
SkipWhile(t, p, C) ==
  Min({i \in p..(Len(t) + 1) : i = Len(t) + 1 \/ t[i] \notin C})

\* exactly n digits start at p
DigitsAt(t, p, n) ==
  /\ p + n - 1 <= Len(t)
  /\ \A k \in 0..(n - 1) : t[p + k] \in Digit

\* pattern.test(t) for a pattern that is a sequence of character classes
Test(pat, t) ==
  \E p \in 1..Len(t) :
    /\ p + Len(pat) - 1 <= Len(t)
    /\ \A k \in 1..Len(pat) : LowerChar(t[p + k - 1]) \in pat[k]

(***************************************************************************)
(* Configuration (src/src/config.js)                                       *)
(***************************************************************************)
REQUIRED_CLASS == <<"k", "a", "i", "n">>
REQUIRED_LEVEL == 240
COOLDOWN_MS == 5 * 60 * 1000

(***************************************************************************)
(* Decision engine (src/src/verifier.js)                                   *)
(***************************************************************************)
\* config.MESSAGES: the reason of a verdict; FAIL_LOW_LEVEL(detected) carries
\* the detected level in its text, kept here in the field "detected"
Reason(code, detected) == [code |-> code, detected |-> detected]

\* checkRequirements with the class test and the level test swapped
checkRequirements_levelFirst(detectedClass, detectedLevel) ==
  IF detectedLevel = Null
    THEN [success |-> FALSE, reason |-> Reason("FAIL_NO_LEVEL", Null)]
  ELSE IF Val(detectedLevel) <= REQUIRED_LEVEL
    THEN [success |-> FALSE, reason |-> Reason("FAIL_LOW_LEVEL", detectedLevel)]
  ELSE IF detectedClass = Null \/ detectedClass = Some(<<>>)
    THEN [success |-> FALSE, reason |-> Reason("FAIL_NO_CLASS", Null)]
  ELSE IF toLowerCase(Val(detectedClass)) # toLowerCase(REQUIRED_CLASS)
    THEN [success |-> FALSE, reason |-> Reason("FAIL_WRONG_CLASS", Null)]
  ELSE [success |-> TRUE, reason |-> Reason("SUCCESS", Null)]

\* checkRequirements that reports a low level as a success
checkRequirements_lowPasses(detectedClass, detectedLevel) ==
  IF detectedClass = Null \/ detectedClass = Some(<<>>)
    THEN [success |-> FALSE, reason |-> Reason("FAIL_NO_CLASS", Null)]
  ELSE IF toLowerCase(Val(detectedClass)) # toLowerCase(REQUIRED_CLASS)
    THEN [success |-> FALSE, reason |-> Reason("FAIL_WRONG_CLASS", Null)]
  ELSE IF detectedLevel = Null
    THEN [success |-> FALSE, reason |-> Reason("FAIL_NO_LEVEL", Null)]
  ELSE IF Val(detectedLevel) < REQUIRED_LEVEL
    THEN [success |-> TRUE, reason |-> Reason("FAIL_LOW_LEVEL", detectedLevel)]
  ELSE [success |-> TRUE, reason |-> Reason("SUCCESS", Null)]

checkRequirements(detectedClass, detectedLevel) ==
  \* if (!detectedClass): null, undefined and the empty string are falsy
  IF detectedClass = Null \/ detectedClass = Some(<<>>)
    THEN [success |-> FALSE, reason |-> Reason("FAIL_NO_CLASS", Null)]
  ELSE IF toLowerCase(Val(detectedClass)) # toLowerCase(REQUIRED_CLASS)
    THEN [success |-> FALSE, reason |-> Reason("FAIL_WRONG_CLASS", Null)]
  ELSE IF detectedLevel = Null
    THEN [success |-> FALSE, reason |-> Reason("FAIL_NO_LEVEL", Null)]
  ELSE IF Val(detectedLevel) < REQUIRED_LEVEL
    THEN [success |-> FALSE, reason |-> Reason("FAIL_LOW_LEVEL", detectedLevel)]
  ELSE [success |-> TRUE, reason |-> Reason("SUCCESS", Null)]

(***************************************************************************)
(* Entity extractor: parseOCRText of the recognition module with the       *)
(* remote backend (src/unnamed/part_000)                                   *)
(***************************************************************************)
\* classPatterns with the exact spelling only
classPatterns_exactOnly ==
  << <<{"k"}, {"a"}, {"i"}, {"n"}>> >>

\* const classPatterns = [/kain/i, /ka[il1!|]n/i, /kam/i, /kaln/i]
classPatterns ==
  << <<{"k"}, {"a"}, {"i"}, {"n"}>>,
     <<{"k"}, {"a"}, {"i", "l", "1", "!", "|"}, {"n"}>>,
     <<{"k"}, {"a"}, {"m"}>>,
     <<{"k"}, {"a"}, {"l"}, {"n"}>> >>

\* /lv[^0-9]*(\d{3})/gi at position s.  The greedy [^0-9]* stops at the first
\* digit, and giving characters back never helps: the next one is no digit.
LvThree(t, s) ==
  IF ~Lit(t, s, <<"l", "v">>) THEN NoMatch
  ELSE LET q == SkipWhile(t, s + 2, {c \in Range(t) : c \notin Digit})
       IN  IF DigitsAt(t, q, 3) THEN [end |-> q + 3, cap |-> SubSeq(t, q, q + 2)]
           ELSE NoMatch

\* /lv[^0-9]*(\d{2})/gi at position s
LvTwo(t, s) ==
  IF ~Lit(t, s, <<"l", "v">>) THEN NoMatch
  ELSE LET q == SkipWhile(t, s + 2, {c \in Range(t) : c \notin Digit})
       IN  IF DigitsAt(t, q, 2) THEN [end |-> q + 2, cap |-> SubSeq(t, q, q + 1)]
           ELSE NoMatch

\* /level[^0-9]*(\d{2,3})/gi at position s
LevelTwoThree(t, s) ==
  IF ~Lit(t, s, <<"l", "e", "v", "e", "l">>) THEN NoMatch
  ELSE LET q == SkipWhile(t, s + 5, {c \in Range(t) : c \notin Digit})
       IN  IF DigitsAt(t, q, 3) THEN [end |-> q + 3, cap |-> SubSeq(t, q, q + 2)]
           ELSE IF DigitsAt(t, q, 2) THEN [end |-> q + 2, cap |-> SubSeq(t, q, q + 1)]
           ELSE NoMatch

\* /\d{3}/g at position s (text.match(/\d{3}/g) lists the successive matches)
ThreeDigits(t, s) ==
  IF DigitsAt(t, s, 3) THEN [end |-> s + 3, cap |-> SubSeq(t, s, s + 2)] ELSE NoMatch

\* /2\s*6\s*(\d)/g at position s
TwoSix(t, s) ==
  IF ~(s <= Len(t) /\ t[s] = "2") THEN NoMatch
  ELSE LET q == SkipWhile(t, s + 1, WS)
       IN  IF ~(q <= Len(t) /\ t[q] = "6") THEN NoMatch
           ELSE LET r == SkipWhile(t, q + 1, WS)
                IN  IF r <= Len(t) /\ t[r] \in Digit
                      THEN [end |-> r + 1, cap |-> <<t[r]>>]
                      ELSE NoMatch

\* ---- the level patterns of src/src/ocr.js ----
\* (\d{2,3}) at position q, greedy
TwoThreeAt(t, q) ==
  IF DigitsAt(t, q, 3) THEN [end |-> q + 3, cap |-> SubSeq(t, q, q + 2)]
  ELSE IF DigitsAt(t, q, 2) THEN [end |-> q + 2, cap |-> SubSeq(t, q, q + 1)]
  ELSE NoMatch

\* \.? at position p: the index after it
OptDot(t, p) == IF p <= Len(t) /\ t[p] = "." THEN p + 1 ELSE p

\* /lv\.?\s*(\d{2,3})/gi at position s
LvDot(t, s) ==
  IF ~Lit(t, s, <<"l", "v">>) THEN NoMatch
  ELSE TwoThreeAt(t, SkipWhile(t, OptDot(t, s + 2), WS))

\* /lv[:\s]*(\d{2,3})/gi at position s
LvColon(t, s) ==
  IF ~Lit(t, s, <<"l", "v">>) THEN NoMatch
  ELSE TwoThreeAt(t, SkipWhile(t, s + 2, WS \cup {":"}))

\* /level\s*[:\s]*(\d{2,3})/gi at position s
LevelColon(t, s) ==
  IF ~Lit(t, s, <<"l", "e", "v", "e", "l">>) THEN NoMatch
  ELSE TwoThreeAt(t, SkipWhile(t, s + 5, WS \cup {":"}))

\* /lvl\.?\s*(\d{2,3})/gi at position s
LvlDot(t, s) ==
  IF ~Lit(t, s, <<"l", "v", "l">>) THEN NoMatch
  ELSE TwoThreeAt(t, SkipWhile(t, OptDot(t, s + 3), WS))

\* /[il1]v\.?\s*(\d{2,3})/gi at position s
MisreadLv(t, s) ==
  IF ~(s + 1 <= Len(t) /\ LowerChar(t[s]) \in {"i", "l", "1"} /\ LowerChar(t[s + 1]) = "v")
    THEN NoMatch
  ELSE TwoThreeAt(t, SkipWhile(t, OptDot(t, s + 2), WS))

\* /(\d{3})\s*(?:lv|level)/gi at position s
DigitsThenLv(t, s) ==
  IF ~DigitsAt(t, s, 3) THEN NoMatch
  ELSE LET q == SkipWhile(t, s + 3, WS)
       IN  IF Lit(t, q, <<"l", "v">>) THEN [end |-> q + 2, cap |-> SubSeq(t, s, s + 2)]
           ELSE IF Lit(t, q, <<"l", "e", "v", "e", "l">>)
             THEN [end |-> q + 5, cap |-> SubSeq(t, s, s + 2)]
           ELSE NoMatch

\* /(?:^|\s)(\d{3})(?:\s|$)/gm at position s: ^ and $ are line boundaries
Standalone(t, s) ==
  LET d == IF s <= Len(t) /\ t[s] \in WS THEN s + 1
           ELSE IF s = 1 \/ (s >= 2 /\ s <= Len(t) /\ t[s - 1] = "\n") THEN s
           ELSE 0
  IN  IF d = 0 \/ ~DigitsAt(t, d, 3) THEN NoMatch
      ELSE IF d + 3 <= Len(t) /\ t[d + 3] \in WS
        THEN [end |-> d + 4, cap |-> SubSeq(t, d, d + 2)]
      ELSE IF d + 3 = Len(t) + 1
        THEN [end |-> d + 3, cap |-> SubSeq(t, d, d + 2)]
      ELSE NoMatch

\* pattern.exec at position s, for the global pattern named pat
MatchAt(pat, t, s) ==
  CASE pat = "LvThree" -> LvThree(t, s)
    [] pat = "LvTwo" -> LvTwo(t, s)
    [] pat = "LevelTwoThree" -> LevelTwoThree(t, s)
    [] pat = "ThreeDigits" -> ThreeDigits(t, s)
    [] pat = "TwoSix" -> TwoSix(t, s)
    [] pat = "LvDot" -> LvDot(t, s)
    [] pat = "LvColon" -> LvColon(t, s)
    [] pat = "LevelColon" -> LevelColon(t, s)
    [] pat = "LvlDot" -> LvlDot(t, s)
    [] pat = "MisreadLv" -> MisreadLv(t, s)
    [] pat = "DigitsThenLv" -> DigitsThenLv(t, s)
    [] pat = "Standalone" -> Standalone(t, s)

\* the loop  while ((match = pattern.exec(t)) !== null)  of a global pattern,
\* started with lastIndex = from - 1: the captures of the successive matches
RECURSIVE ExecAll(_, _, _)
ExecAll(pat, t, from) ==
  LET starts == {s \in from..Len(t) : MatchAt(pat, t, s).end > 0}
  IN  IF starts = {} THEN <<>>
      ELSE LET m == MatchAt(pat, t, Min(starts))
           IN  <<m.cap>> \o ExecAll(pat, t, m.end)

\* LvLevels without the range filter  if (level >= 200 && level <= 300)
LvLevels_noFilter(caps) ==
  [i \in 1..Len(caps) |->
     LET level == parseInt(caps[i])
     IN  IF level >= 40 /\ level <= 99 THEN 200 + level ELSE level]

\* the body of the loop over lvPatterns: the 2-digit promotion and the range
\* filter, applied to the captures of one pattern in match order
LvLevels(caps) ==
  LET promoted == [i \in 1..Len(caps) |->
                     LET level == parseInt(caps[i])
                     IN  IF level >= 40 /\ level <= 99 THEN 200 + level ELSE level]
  IN  SelectSeq(promoted, LAMBDA level : level >= 200 /\ level <= 300)

\* the range filter of the free 3-digit scan
InRange(nums) == SelectSeq(nums, LAMBDA num : num >= 200 /\ num <= 300)

\* a tag test that never matches
DetectClass_never(allText) == Null

\* the tag test of parseOCRText: the first pattern that matches allText wins
DetectClass(allText) ==
  IF \E k \in 1..Len(classPatterns) : Test(classPatterns[k], allText)
    THEN Some(<<"k", "a", "i", "n">>)
    ELSE Null

\* the array "levels" of parseOCRText, in push order
CollectLevels(text, allText) ==
  LvLevels(ExecAll("LvThree", allText, 1))
    \o LvLevels(ExecAll("LvTwo", allText, 1))
    \o LvLevels(ExecAll("LevelTwoThree", allText, 1))
    \o InRange([i \in 1..Len(ExecAll("ThreeDigits", text, 1)) |->
                  parseInt(ExecAll("ThreeDigits", text, 1)[i])])
    \o LET caps == ExecAll("TwoSix", text, 1)
       IN  SelectSeq([i \in 1..Len(caps) |-> parseInt(<<"2", "6">> \o caps[i])],
                     LAMBDA level : level >= 260 /\ level <= 269)

\* allText = normalized + ' ' + noSpaces + ' ' + lettersAndNumbers
AllText(text) ==
  LET normalized == Trim(CollapseWS(toLowerCase(text)))
      noSpaces == RemoveWS(toLowerCase(text))
      lettersAndNumbers == CollapseWS(BlankNonAlnum(toLowerCase(text)))
  IN  normalized \o <<" ">> \o noSpaces \o <<" ">> \o lettersAndNumbers

\* parseOCRText that returns the first level it collected
parseOCRText_firstLevel(text) ==
  LET levels == CollectLevels(text, AllText(text))
  IN  [class |-> DetectClass(AllText(text)),
       level |-> IF Len(levels) > 0 THEN Some(levels[1]) ELSE Null,
       rawText |-> text]

parseOCRText(text) ==
  LET levels == CollectLevels(text, AllText(text))
  IN  [class |-> DetectClass(AllText(text)),
       level |-> IF Len(levels) > 0 THEN Some(Max(Range(levels))) ELSE Null,
       rawText |-> text]

(***************************************************************************)
(* Entity extractor: parseOCRText of src/src/ocr.js                        *)
(***************************************************************************)
\* const classPatterns = [/\bkain\b/i, /\bkam\b/i, /\bkaln\b/i, /\bkaim\b/i,
\*                        /\bkajn\b/i, /\bka[il1]n\b/i]
classPatterns_ocrjs ==
  << <<{"k"}, {"a"}, {"i"}, {"n"}>>,
     <<{"k"}, {"a"}, {"m"}>>,
     <<{"k"}, {"a"}, {"l"}, {"n"}>>,
     <<{"k"}, {"a"}, {"i"}, {"m"}>>,
     <<{"k"}, {"a"}, {"j"}, {"n"}>>,
     <<{"k"}, {"a"}, {"i", "l", "1"}, {"n"}>> >>

\* /\b...\b/i.test(t): the classes match at p and a word boundary is on both
\* sides (every pattern starts and ends with a word character)
TestWord(pat, t) ==
  \E p \in 1..Len(t) :
    /\ p + Len(pat) - 1 <= Len(t)
    /\ \A k \in 1..Len(pat) : LowerChar(t[p + k - 1]) \in pat[k]
    /\ p = 1 \/ t[p - 1] \notin WordChar
    /\ p + Len(pat) = Len(t) + 1 \/ t[p + Len(pat)] \notin WordChar

\* parseInt of each capture
Ints(caps) == [i \in 1..Len(caps) |-> parseInt(caps[i])]

\* normalizedText: lower case, whitespace collapsed, trimmed (the replace of
\* [|!1l] returns the character it matched)
NormalizedText(text) == Trim(CollapseWS(toLowerCase(text)))

DetectClass_ocrjs(normalizedText) ==
  IF \E k \in 1..Len(classPatterns_ocrjs) : TestWord(classPatterns_ocrjs[k], normalizedText)
    THEN Some(<<"k", "a", "i", "n">>)
    ELSE Null

\* the array "levels" of parseOCRText, in push order
CollectLevels_ocrjs(normalizedText) ==
  InRange(Ints(ExecAll("LvDot", normalizedText, 1)))
    \o InRange(Ints(ExecAll("LvColon", normalizedText, 1)))
    \o InRange(Ints(ExecAll("LevelColon", normalizedText, 1)))
    \o InRange(Ints(ExecAll("LvlDot", normalizedText, 1)))
    \o InRange(Ints(ExecAll("MisreadLv", normalizedText, 1)))
    \o InRange(Ints(ExecAll("DigitsThenLv", normalizedText, 1)))
    \o InRange(Ints(ExecAll("Standalone", normalizedText, 1)))
    \o InRange(Ints(ExecAll("ThreeDigits", normalizedText, 1)))

parseOCRText_ocrjs(text) ==
  LET levels == CollectLevels_ocrjs(NormalizedText(text))
  IN  [class |-> DetectClass_ocrjs(NormalizedText(text)),
       level |-> IF Len(levels) > 0 THEN Some(Max(Range(levels))) ELSE Null,
       rawText |-> text]

(***************************************************************************)
(* Secondary evidence: the MapleRanks parser (src/src/verifier.js).  A     *)
(* property of a message is a JavaScript value: a string, undefined, null  *)
(* or a non-zero number (str is then what String() gives for it).          *)
(***************************************************************************)
Str(t) == [type |-> "string", str |-> t]
Num(t) == [type |-> "number", str |-> t]
Undefined == [type |-> "undefined", str |-> <<>>]
JSNull == [type |-> "null", str |-> <<>>]

\* the value is truthy
Truthy(v) == v.type = "number" \/ (v.type = "string" /\ v.str # <<>>)

\* v?.toLowerCase() raises a TypeError: v is neither nullish nor a string
NotLowerable(v) == v.type = "number"

\* v?.toLowerCase() || ''
OptLower(v) == IF v.type = "string" THEN toLowerCase(v.str) ELSE <<>>

\* v || ''  as an element of an array that is joined
OrEmpty(v) == IF Truthy(v) THEN v.str ELSE <<>>

\* String.prototype.includes
includes(t, w) ==
  \E p \in 1..Len(t) :
    /\ p + Len(w) - 1 <= Len(t)
    /\ \A k \in 1..Len(w) : t[p + k - 1] = w[k]

\* a level is falsy: null or 0
NoLevel(l) == l = Null \/ l = Some(0)

\* t.match(/(\d+)/): the first run of digits, as parseInt reads it
FirstDigits(t) ==
  LET D == {i \in 1..Len(t) : t[i] \in Digit}
  IN  IF D = {} THEN Null
      ELSE Some(parseInt(SubSeq(t, Min(D), SkipWhile(t, Min(D), Digit) - 1)))

\* the literal w, then "." if dot, then characters of C, then (\d+), matched at
\* position p: the number captured, or Null
IndicatorAt(t, p, w, dot, C) ==
  IF ~Lit(t, p, w) THEN Null
  ELSE LET q0 == p + Len(w)
           q1 == IF dot /\ q0 <= Len(t) /\ t[q0] = "." THEN q0 + 1 ELSE q0
           q2 == SkipWhile(t, q1, C)
           e  == SkipWhile(t, q2, Digit)
       IN  IF e > q2 THEN Some(parseInt(SubSeq(t, q2, e - 1))) ELSE Null

\* t.match(pattern) for the level patterns of the parser: the capture of the
\* leftmost match, or Null
\*   "level"   /level[:\s]*(\d+)/i
\*   "lv"      /lv\.?\s*(\d+)/i
\*   "content" /(?:level|lv\.?)\s*[:\s]*(\d+)/i
LevelAt(pat, t, p) ==
  CASE pat = "level" -> IndicatorAt(t, p, <<"l", "e", "v", "e", "l">>, FALSE, WS \cup {":"})
    [] pat = "lv" -> IndicatorAt(t, p, <<"l", "v">>, TRUE, WS)
    [] pat = "content" ->
         IF Lit(t, p, <<"l", "e", "v", "e", "l">>)
           THEN IndicatorAt(t, p, <<"l", "e", "v", "e", "l">>, FALSE, WS \cup {":"})
           ELSE IndicatorAt(t, p, <<"l", "v">>, TRUE, WS \cup {":"})

LevelMatch(pat, t) ==
  LET P == {p \in 1..Len(t) : LevelAt(pat, t, p) # Null}
  IN  IF P = {} THEN Null ELSE LevelAt(pat, t, Min(P))

kain == <<"k", "a", "i", "n">>

\* what a parser of the module returns, or threw = TRUE if it raised
NoMaple == [threw |-> FALSE, class |-> Null, level |-> Null, name |-> JSNull]

\* the body of  for (const field of embed.fields)  once fieldName and
\* fieldValue are computed
fieldResult(result, field, fieldName, fieldValue) ==
  [threw |-> FALSE,
   class |-> IF /\ \/ includes(fieldName, <<"j", "o", "b">>)
                   \/ includes(fieldName, <<"c", "l", "a", "s", "s">>)
                /\ includes(fieldValue, kain)
               THEN Some(kain) ELSE result.class,
   level |-> IF /\ \/ includes(fieldName, <<"l", "e", "v", "e", "l">>)
                   \/ includes(fieldName, <<"l", "v">>)
                /\ FirstDigits(fieldValue) # Null
               THEN FirstDigits(fieldValue) ELSE result.level,
   name |-> IF \/ includes(fieldName, <<"n", "a", "m", "e">>)
               \/ includes(fieldName, <<"i", "g", "n">>)
              THEN field.value ELSE result.name]

\* the body of  for (const field of embed.fields)
parseField(result, field) ==
  IF NotLowerable(field.name) \/ NotLowerable(field.value)
    THEN [result EXCEPT !.threw = TRUE]
    ELSE fieldResult(result, field, OptLower(field.name), OptLower(field.value))

RECURSIVE parseFields(_, _)
parseFields(fields, result) ==
  IF Len(fields) = 0 \/ result.threw THEN result
  ELSE parseFields(Tail(fields), parseField(result, Head(fields)))

\* the first of  levelPatterns  that matches gives the level
levelFromText(byLevel, byLv, level) ==
  IF byLevel # Null THEN byLevel ELSE IF byLv # Null THEN byLv ELSE level

\* parseMapleRanksEmbed after the fields: description and title are consulted
\* for what the fields did not give
embedText(result, textContent) ==
  IF result.threw THEN result
  ELSE [result EXCEPT
          !.class = IF result.class = Null /\ includes(textContent, kain)
                      THEN Some(kain) ELSE @,
          !.level = IF ~NoLevel(result.level) THEN @
                    ELSE levelFromText(LevelMatch("level", textContent),
                                       LevelMatch("lv", textContent), @)]

parseMapleRanksEmbed(embed) ==
  embedText(parseFields(embed.fields, NoMaple),
            toLowerCase(OrEmpty(embed.description) \o <<" ">> \o OrEmpty(embed.title)))

\* the body of  for (const embed of message.embeds)  given the result of
\* parseMapleRanksEmbed
embedMerge(result, embedResult) ==
  IF embedResult.threw THEN [result EXCEPT !.threw = TRUE]
  ELSE [threw |-> FALSE,
        class |-> IF embedResult.class # Null THEN embedResult.class
                  ELSE result.class,
        level |-> IF ~NoLevel(embedResult.level) THEN embedResult.level
                  ELSE result.level,
        name |-> IF Truthy(embedResult.name) THEN embedResult.name
                 ELSE result.name]

RECURSIVE parseEmbeds(_, _)
parseEmbeds(embeds, result) ==
  IF Len(embeds) = 0 \/ result.threw THEN result
  ELSE parseEmbeds(Tail(embeds), embedMerge(result, parseMapleRanksEmbed(Head(embeds))))

\* parseMapleRanksMessage after the embeds: the message content is consulted
\* for what the embeds did not give
contentText(result, content, levelMatch) ==
  [result EXCEPT
     !.class = IF result.class = Null /\ includes(content, kain)
                 THEN Some(kain) ELSE @,
     !.level = IF NoLevel(result.level) /\ levelMatch # Null THEN levelMatch ELSE @]

messageContent(result, content) ==
  IF result.threw \/ ~Truthy(content) THEN result
  ELSE IF NotLowerable(content) THEN [result EXCEPT !.threw = TRUE]
  ELSE contentText(result, toLowerCase(content.str),
                   LevelMatch("content", toLowerCase(content.str)))

parseMapleRanksMessage(message) ==
  messageContent(parseEmbeds(message.embeds, NoMaple), message.content)

\* A result of the verifier: rejected = TRUE stands for a call that raised
\* instead of returning; an absent property of the result is Null / Undefined.
\* The result of verifyFromMapleRanks given what parseMapleRanksMessage gave:
mapleRanksResult(parsed, verdict) ==
  IF parsed.threw
    THEN [rejected |-> FALSE, success |-> FALSE,
          reason |-> Reason("FAIL_GENERIC", Null),
          detectedClass |-> Null, detectedLevel |-> Null,
          method |-> "mapleranks_bot", confidence |-> Null,
          characterName |-> Undefined, error |-> Some("TypeError")]
    ELSE [rejected |-> FALSE,
          success |-> verdict.success,
          reason |-> verdict.reason,
          detectedClass |-> parsed.class, detectedLevel |-> parsed.level,
          method |-> "mapleranks_bot", confidence |-> Null,
          characterName |-> parsed.name, error |-> Null]

\* the verdict on the tag alone: the level is not handed on
parsedVerdict_noLevel(parsed) == checkRequirements(parsed.class, Null)

parsedVerdict(parsed) == checkRequirements(parsed.class, parsed.level)

verifyFromMapleRanks(message) ==
  mapleRanksResult(parseMapleRanksMessage(message),
                   parsedVerdict(parseMapleRanksMessage(message)))

(***************************************************************************)
(* State                                                                   *)
(***************************************************************************)
VARIABLES
  inp,           \* the arguments of a call of a pure function
  outp,          \* the function called and what it returned
  apiKey,        \* process.env.GOOGLE_CLOUD_API_KEY is set
  worker,        \* ocr: the module variable "worker" (0 is null, else a worker)
  workerParams,  \* the workers whose setParameters has completed
  created,       \* the number of workers Tesseract.createWorker has returned
  call,          \* the ready handler's initWorker and the calls of the verifier
  now,           \* Date.now()
  cooldowns,     \* utils: Map userId -> timestamp (Null: no entry)
  verifiedUsersCache,  \* utils: Set of userId
  roles,         \* the members that hold the verified role
  stats,         \* utils: the verification statistics
  att,           \* the verification attempts (messages handled), in the order
                 \* in which they reach the gate
  sweep,         \* the setInterval timer of cleanupCooldowns: its latest run
  cmd,           \* the /verify subcommands (interactions handled), in the
                 \* order in which they are invoked
  dl             \* a call of downloadImage: the server, the request in flight

pureVars == <<inp, outp>>
ocrVars == <<apiKey, worker, workerParams, created, call>>
handlerVars == <<now, cooldowns, verifiedUsersCache, roles, stats, att>>
timerVars == <<sweep>>
adminVars == <<cmd>>
fetchVars == <<dl>>
vars == <<inp, outp, apiKey, worker, workerParams, created, call,
          now, cooldowns, verifiedUsersCache, roles, stats, att, sweep, cmd, dl>>

(***************************************************************************)
(* Calls of the pure functions on bounded inputs                           *)
(***************************************************************************)
MaxTokens == 4

\* pieces of recognized text the sampled texts are built from
Tokens ==
  { <<"l", "v">>, <<"K", "a", "i", "n">>, <<" ">>, <<"2">>, <<"6">>, <<"9">>, <<"x">> }

RECURSIVE Flatten(_)
Flatten(ss) == IF Len(ss) = 0 THEN <<>> ELSE Head(ss) \o Flatten(Tail(ss))

\* texts that are the cases of the specification's scenarios and edge cases
FixedTexts ==
  { <<"l", "v", ".", "2", "6", "4", " ", "k", "a", "i", "n">>,
    <<"l", "e", "v", "e", "l", " ", "1", "8", "0", " ", "k", "a", "i", "n">>,
    <<"l", "v", " ", "2", "6", "0", " ", "w", "a", "r", "r", "i", "o", "r">>,
    <<"k", "a", " ", "i", "n">>,
    <<"a", "r", "k", "a", "m", " ", "2", "5", "0">>,
    <<"k", "a", "1", "n", "\n", "L", "v", ":", "2", "4", "0">>,
    <<"l", "e", "v", "e", "l", " ", "3", "0", "1">>,
    <<"l", "v", " ", "0", "4", "0">>,
    <<"k", "a", "l", "n">>,
    <<"K", "a", "1", "n", " ", "2", "5", "0">>,
    <<"l", "v", " ", "2", "5", "0", " ", "k", "a", "m">>,
    <<"w", "a", "r", "r", "i", "o", "r">>,
    <<"l", "v", " ", "2", "5", "0", " ", "2", "6", "4", " ", "2", "6", " ", "1">> }

Texts ==
  FixedTexts \cup
  UNION { {Flatten(f) : f \in [1..n -> Tokens]} : n \in 0..MaxTokens }

TagSamples ==
  { Null, Some(<<>>), Some(<<"k", "a", "i", "n">>), Some(<<"K", "a", "i", "n">>),
    Some(<<"K", "A", "I", "N">>), Some(<<"w", "a", "r", "r", "i", "o", "r">>),
    Some(<<"k", "a", "i">>), Some(<<"k", "a", "i", "n", "x">>) }

LevelSamples ==
  { Null } \cup { Some(n) : n \in {0, 1, 199, 239, 240, 241, 264, 300, 301} }

NoText == <<>>
NoParsed == [class |-> Null, level |-> Null, rawText |-> <<>>]
NoVerdict == [success |-> FALSE, reason |-> Reason("", Null)]

PureInputs ==
  { [kind |-> "text", text |-> t, tag |-> Null, level |-> Null] : t \in Texts }
    \cup
  { [kind |-> "candidate", text |-> NoText, tag |-> g, level |-> l] :
      g \in TagSamples, l \in LevelSamples }

NoCall == [fn |-> "none", parsed |-> NoParsed, verdict |-> NoVerdict]

NoInput == [kind |-> "none", text |-> NoText, tag |-> Null, level |-> Null]

CallCheckRequirements ==
  /\ inp.kind = "candidate"
  /\ outp.fn = "none"
  /\ outp' = [fn |-> "checkRequirements", parsed |-> NoParsed,
              verdict |-> checkRequirements(inp.tag, inp.level)]
  /\ UNCHANGED inp

CallParseOCRText ==
  /\ inp.kind = "text"
  /\ outp.fn = "none"
  /\ outp' = [fn |-> "parseOCRText", parsed |-> parseOCRText(inp.text),
              verdict |-> NoVerdict]
  /\ UNCHANGED inp

CallParseOCRText_ocrjs ==
  /\ inp.kind = "text"
  /\ outp.fn = "none"
  /\ outp' = [fn |-> "parseOCRText_ocrjs", parsed |-> parseOCRText_ocrjs(inp.text),
              verdict |-> NoVerdict]
  /\ UNCHANGED inp

\* verifyFromScreenshot once processScreenshot has parsed the recognized text:
\* the candidate goes through checkRequirements
checked(parsed) ==
  [parsed |-> parsed, verdict |-> checkRequirements(parsed.class, parsed.level)]

\* the recognized text goes through parseOCRText (processScreenshot) and the
\* candidate through checkRequirements (verifyFromScreenshot)
parseThenCheck(text) == checked(parseOCRText(text))

\* outp once parseThenCheck has returned r
Checked(r) == [fn |-> "parseThenCheck", parsed |-> r.parsed, verdict |-> r.verdict]

CallParseThenCheck ==
  /\ inp.kind = "text"
  /\ outp.fn = "none"
  /\ outp' = Checked(parseThenCheck(inp.text))
  /\ UNCHANGED inp

PureNext ==
  \/ CallCheckRequirements
  \/ CallParseOCRText
  \/ CallParseOCRText_ocrjs
  \/ CallParseThenCheck

(***************************************************************************)
(* The recognition pipeline (src/unnamed/part_000) as it is called by      *)
(* verifyFromScreenshot (src/src/verifier.js), and the initWorker call of  *)
(* the ready handler (src/unnamed/part_001)                                *)
(***************************************************************************)
MaxCalls == 1

Startup == 0
Calls == 1..MaxCalls
Procs == {Startup} \cup Calls

\* createPreprocessedVariants pushes four variants
NumVariants == 4

\* what the screenshots of the sampled calls show: a character card, or
\* nothing that recognition reads as text
ImageTexts ==
  { <<"L", "v", "2", "6", "4", " ", "K", "a", "i", "n">>,
    <<>> }

\* data.confidence of worker.recognize for each variant (sample values)
VariantConfidence == <<62, 87, 45, 71>>

\* data.confidence of worker.recognize on variant v of an image showing img
RecognizedConfidence(img, v) == IF img = <<>> THEN 0 ELSE VariantConfidence[v]

\* the variants on which worker.recognize rejects, for the sampled calls:
\* none, one, all
RecFailSamples == { {}, {2}, 1..NumVariants }

\* data.text of worker.recognize on variant v of an image showing img
RecognizedText(img, v) == img

NoProc == [class |-> Null, level |-> Null, rawText |-> <<>>, confidence |-> 0,
           method |-> "none"]
NoResult == [rejected |-> FALSE, success |-> FALSE, reason |-> Reason("", Null),
             detectedClass |-> Null, detectedLevel |-> Null, method |-> "none",
             confidence |-> Null, characterName |-> Undefined, error |-> Null]

\* no message was handed to verifyFromMapleRanks
NoMessage == [embeds |-> <<>>, content |-> JSNull]

IdleCall(p) ==
  [pc |-> IF p = Startup THEN "boot" ELSE "idle",
   msg |-> NoMessage,  \* the message verifyFromMapleRanks was called on
   img |-> <<>>,       \* the text the image shows
   recFails |-> {},    \* the variants on which worker.recognize rejects
   remote |-> "none",  \* how googleVisionOCR ended
   local |-> FALSE,    \* tesseractOCR was called
   wid |-> 0,          \* the worker this caller's createWorker returned
   vfail |-> -1,       \* createPreprocessedVariants: -1 no failure, 0 metadata, v variant v
   k |-> 0,            \* number of worker.recognize calls made
   recOn |-> 0,        \* the worker the pending recognize was called on
   results |-> <<>>,   \* the variants whose recognition succeeded ("results")
   proc |-> NoProc,    \* what processScreenshot returned
   result |-> NoResult]

IdleCalls == [p \in Procs |-> IdleCall(p)]

\* verifyFromScreenshot without its try/catch: the error propagates
verifyFromScreenshot_noCatch(threw, error, r) ==
  IF threw
    THEN [NoResult EXCEPT !.rejected = TRUE, !.error = Some(error)]
    ELSE [rejected |-> FALSE,
          success |-> checkRequirements(r.class, r.level).success,
          reason |-> checkRequirements(r.class, r.level).reason,
          detectedClass |-> r.class, detectedLevel |-> r.level,
          method |-> "screenshot_ocr", confidence |-> Some(r.confidence),
          characterName |-> Undefined, error |-> Null]

\* verifyFromScreenshot, given how  await ocr.processScreenshot(imageUrl)  ended:
\* threw with error.message = error, or returned r
verifyFromScreenshot(threw, error, r) ==
  IF threw
    THEN [rejected |-> FALSE, success |-> FALSE,
          reason |-> Reason("FAIL_OCR_ERROR", Null),
          detectedClass |-> Null, detectedLevel |-> Null,
          method |-> "screenshot_ocr", confidence |-> Null,
          characterName |-> Undefined, error |-> Some(error)]
    ELSE [rejected |-> FALSE,
          success |-> checkRequirements(r.class, r.level).success,
          reason |-> checkRequirements(r.class, r.level).reason,
          detectedClass |-> r.class, detectedLevel |-> r.level,
          method |-> "screenshot_ocr", confidence |-> Some(r.confidence),
          characterName |-> Undefined, error |-> Null]

\* results.map(r => r.text).join('\n')
RECURSIVE JoinLines(_)
JoinLines(texts) ==
  IF Len(texts) = 0 THEN <<>>
  ELSE IF Len(texts) = 1 THEN texts[1]
  ELSE texts[1] \o <<"\n">> \o JoinLines(Tail(texts))

\* the end of tesseractOCR: the combined text and the best confidence
tesseractResult(img, results) ==
  IF Len(results) = 0 THEN [text |-> <<>>, confidence |-> 0]
  ELSE [text |-> JoinLines([i \in 1..Len(results) |-> RecognizedText(img, results[i])]),
        confidence |-> Max({RecognizedConfidence(img, results[i]) : i \in 1..Len(results)})]

\* the texts the recognition backends return for the sampled images
OcrTexts ==
  {<<>>} \cup ImageTexts \cup
  { JoinLines([i \in 1..n |-> img]) : n \in 1..NumVariants, img \in ImageTexts }

\* parseOCRText on each of them (a table, so that it is evaluated once)
ParsedText == [t \in OcrTexts |-> parseOCRText(t)]

\* the end of processScreenshot: parse the text, add confidence and method
processResult(ocrResult, method) ==
  [class |-> ParsedText[ocrResult.text].class,
   level |-> ParsedText[ocrResult.text].level,
   rawText |-> ocrResult.text,
   confidence |-> ocrResult.confidence,
   method |-> method]

\* MapleRanks messages of the sampled calls
Field(name, value) == [name |-> name, value |-> value]
Embed(fields, description, title) ==
  [fields |-> fields, description |-> description, title |-> title]
Message(embeds, content) == [embeds |-> embeds, content |-> content]

LevelField == Field(Str(<<"L", "e", "v", "e", "l">>), Str(<<"L", "v", ".", " ", "2", "4", "5">>))
JobField(job) == Field(Str(<<"J", "o", "b">>), Str(job))

MapleMessages ==
  { \* a level field and the class in the description
    Message(<<Embed(<<LevelField>>, Str(<<"K", "a", "i", "n">>), Undefined)>>, Str(<<>>)),
    \* another job in the fields, class and levels in the texts
    Message(<<Embed(<<JobField(<<"H", "e", "r", "o">>), LevelField>>,
                    Str(<<"k", "a", "i", "n", " ", "l", "v", " ", "2", "6", "0">>),
                    Undefined)>>,
            Str(<<"l", "v", ":", "2", "7", "0">>)),
    \* no embed, a low level in the content
    Message(<<>>, Str(<<"K", "a", "i", "n", " ", "L", "v", ".", "2", "3", "0">>)),
    \* nothing
    Message(<<>>, Undefined),
    \* a field whose name is not a string
    Message(<<Embed(<<Field(Num(<<"7">>), Str(<<"K", "a", "i", "n">>))>>,
                    Undefined, Undefined)>>, Str(<<>>)),
    \* a content that is not a string
    Message(<<>>, Num(<<"7">>)) }

\* verifyFromMapleRanks on each of them (a table, so that it is evaluated once)
MapleVerdicts == [m \in MapleMessages |-> verifyFromMapleRanks(m)]

\* the locals of a call are gone once it has ended
Ended(c) ==
  [c EXCEPT !.pc = "done", !.img = <<>>, !.recFails = {}, !.wid = 0, !.recOn = 0]

\* processScreenshot returned r to verifyFromScreenshot, which returns
Return(p, c, r) ==
  call' = [call EXCEPT ![p] =
             [Ended(c) EXCEPT !.proc = r,
                              !.result = verifyFromScreenshot(FALSE, "", r)]]

\* an error thrown on the way propagates out of processScreenshot (out of
\* initWorker for the ready handler, whose rejection nothing catches)
Throw(p, c, error) ==
  call' = [call EXCEPT ![p] =
             IF p = Startup THEN [c EXCEPT !.pc = "failed"]
             ELSE [Ended(c) EXCEPT
                     !.result = verifyFromScreenshot(TRUE, error, NoProc)]]

\* the pc of a caller of initWorker once initWorker has returned
AfterInit(p) == IF p = Startup THEN "ready" ELSE "variants"

\* initWorker up to its first await:  if (worker) return worker;  else
\* Tesseract.createWorker is called.  A call that gets the worker goes on in
\* tesseractOCR and calls createPreprocessedVariants.
initWorker(p, c) ==
  /\ IF worker # 0
       THEN call' = [call EXCEPT ![p] = [c EXCEPT !.pc = AfterInit(p)]]
       ELSE call' = [call EXCEPT ![p] = [c EXCEPT !.pc = "creating"]]
  /\ UNCHANGED <<apiKey, worker, workerParams, created>>

\* the ready handler:  await ocr.initWorker()
StartupInitWorker ==
  /\ call[Startup].pc = "boot"
  /\ initWorker(Startup, call[Startup])

\* worker = await Tesseract.createWorker(...) resolves; setParameters is called
CreateWorkerResolved(p) ==
  /\ call[p].pc = "creating"
  /\ created' = created + 1
  /\ worker' = created + 1
  /\ call' = [call EXCEPT ![p] = [@ EXCEPT !.pc = "setting", !.wid = created + 1]]
  /\ UNCHANGED <<apiKey, workerParams>>

CreateWorkerRejected(p) ==
  /\ call[p].pc = "creating"
  /\ Throw(p, call[p], "createWorker")
  /\ UNCHANGED <<apiKey, worker, workerParams, created>>

\* await worker.setParameters(...) resolves; initWorker returns
SetParametersResolved(p) ==
  /\ call[p].pc = "setting"
  /\ workerParams' = workerParams \cup {call[p].wid}
  /\ call' = [call EXCEPT ![p].pc = AfterInit(p)]
  /\ UNCHANGED <<apiKey, worker, created>>

\* await worker.setParameters(...) rejects: initWorker rejects, the module
\* variable keeps the worker
SetParametersRejected(p) ==
  /\ call[p].pc = "setting"
  /\ Throw(p, call[p], "setParameters")
  /\ UNCHANGED <<apiKey, worker, workerParams, created>>

\* verifier.verifyFromMapleRanks(message) is called and returns
CallVerifyFromMapleRanks(p) ==
  /\ p \in Calls
  /\ call[p].pc = "idle"
  /\ \E m \in DOMAIN MapleVerdicts :
       call' = [call EXCEPT ![p] = [@ EXCEPT !.pc = "done", !.msg = m,
                                             !.result = MapleVerdicts[m]]]
  /\ UNCHANGED <<apiKey, worker, workerParams, created>>

\* verifier.verifyFromScreenshot(url) is called: processScreenshot starts the
\* download
CallStart(p) ==
  /\ p \in Calls
  /\ call[p].pc = "idle"
  /\ call' = [call EXCEPT ![p].pc = "download"]
  /\ UNCHANGED <<apiKey, worker, workerParams, created>>

\* downloadImage resolves with the bytes of an image.  With an API key
\* googleVisionOCR sends its request; without one processScreenshot goes on to
\* tesseractOCR.
DownloadResolved(p) ==
  /\ call[p].pc = "download"
  /\ \E img \in ImageTexts :
       IF apiKey
         THEN /\ call' = [call EXCEPT ![p] = [@ EXCEPT !.pc = "vision", !.img = img]]
              /\ UNCHANGED <<apiKey, worker, workerParams, created>>
         ELSE initWorker(p, [call[p] EXCEPT !.img = img, !.remote = "noKey",
                                            !.local = TRUE])

\* downloadImage rejects (status other than 200, request error, timeout)
DownloadRejected(p) ==
  /\ call[p].pc = "download"
  /\ Throw(p, call[p], "download")
  /\ UNCHANGED <<apiKey, worker, workerParams, created>>

\* googleVisionOCR resolves with the recognized text and confidence 95 (an
\* empty fullText and description are falsy: it then resolves with null)
VisionText(p) ==
  /\ call[p].pc = "vision"
  /\ call[p].img # <<>>
  /\ Return(p, [call[p] EXCEPT !.remote = "text"],
            processResult([text |-> call[p].img, confidence |-> 95], "google_vision"))
  /\ UNCHANGED <<apiKey, worker, workerParams, created>>

\* googleVisionOCR resolves with null (an error response, or no text found)
VisionNull(p) ==
  /\ call[p].pc = "vision"
  /\ initWorker(p, [call[p] EXCEPT !.remote = "null", !.local = TRUE])

\* googleVisionOCR rejects (request error, unparsable response); caught
VisionRejected(p) ==
  /\ call[p].pc = "vision"
  /\ initWorker(p, [call[p] EXCEPT !.remote = "reject", !.local = TRUE])

\* the request gets no answer: no 'error' and no 'end' event is ever emitted,
\* and googleVisionOCR sets no timeout, so its promise stays pending
VisionSilent(p) ==
  /\ call[p].pc = "vision"
  /\ call' = [call EXCEPT ![p] = [@ EXCEPT !.pc = "hung", !.remote = "silent"]]
  /\ UNCHANGED <<apiKey, worker, workerParams, created>>

\* createPreprocessedVariants resolves with its four variants; the loop of
\* tesseractOCR calls worker.recognize on the first
VariantsResolved(p) ==
  /\ call[p].pc = "variants"
  /\ \E fails \in RecFailSamples :
       call' = [call EXCEPT ![p] = [@ EXCEPT !.pc = "recognize", !.k = 1,
                                             !.recOn = worker, !.recFails = fails]]
  /\ UNCHANGED <<apiKey, worker, workerParams, created>>

\* sharp rejects for the metadata (v = 0) or while producing variant v: no
\* try/catch in createPreprocessedVariants or tesseractOCR, so both reject
VariantsRejected(p) ==
  /\ call[p].pc = "variants"
  /\ \E v \in 0..NumVariants :
       Throw(p, [call[p] EXCEPT !.vfail = v], "variants")
  /\ UNCHANGED <<apiKey, worker, workerParams, created>>

\* the loop of tesseractOCR after recognize number k ended: the next
\* recognize, or the end of tesseractOCR and of processScreenshot
AfterRecognize(p, c) ==
  IF c.k < NumVariants
    THEN call' = [call EXCEPT ![p] = [c EXCEPT !.k = c.k + 1, !.recOn = worker]]
    ELSE Return(p, c, processResult(tesseractResult(c.img, c.results), "tesseract"))

RecognizeResolved(p) ==
  /\ call[p].pc = "recognize"
  /\ call[p].k \notin call[p].recFails
  /\ AfterRecognize(p, [call[p] EXCEPT !.results = Append(@, call[p].k)])
  /\ UNCHANGED <<apiKey, worker, workerParams, created>>

\* worker.recognize rejects: caught in the loop, the variant is skipped
RecognizeRejected(p) ==
  /\ call[p].pc = "recognize"
  /\ call[p].k \in call[p].recFails
  /\ AfterRecognize(p, call[p])
  /\ UNCHANGED <<apiKey, worker, workerParams, created>>

OcrNext ==
  \/ StartupInitWorker
  \/ \E p \in Procs : CreateWorkerResolved(p)
  \/ \E p \in Procs : CreateWorkerRejected(p)
  \/ \E p \in Procs : SetParametersResolved(p)
  \/ \E p \in Procs : SetParametersRejected(p)
  \/ \E p \in Calls : CallVerifyFromMapleRanks(p)
  \/ \E p \in Calls : CallStart(p)
  \/ \E p \in Calls : DownloadResolved(p)
  \/ \E p \in Calls : DownloadRejected(p)
  \/ \E p \in Calls : VisionText(p)
  \/ \E p \in Calls : VisionNull(p)
  \/ \E p \in Calls : VisionRejected(p)
  \/ \E p \in Calls : VisionSilent(p)
  \/ \E p \in Calls : VariantsResolved(p)
  \/ \E p \in Calls : VariantsRejected(p)
  \/ \E p \in Calls : RecognizeResolved(p)
  \/ \E p \in Calls : RecognizeRejected(p)

(***************************************************************************)
(* Anti-abuse store (src/src/utils.js), attachment validation              *)
(* (src/src/verifier.js) and the message handlers (src/unnamed/part_001)   *)
(***************************************************************************)
MaxAttempts == 2
MaxTicks == 3
StartTime == 1000

Attempts == 1..MaxAttempts
Users == {"u1", "u2"}

\* the clock advances by half a cooldown window
TickMs == COOLDOWN_MS \div 2

MAX_FILE_SIZE == 10 * 1024 * 1024
ALLOWED_IMAGE_TYPES ==
  { <<"i", "m", "a", "g", "e", "/", "p", "n", "g">>,
    <<"i", "m", "a", "g", "e", "/", "j", "p", "e", "g">>,
    <<"i", "m", "a", "g", "e", "/", "j", "p", "g">>,
    <<"i", "m", "a", "g", "e", "/", "w", "e", "b", "p">> }
ALLOWED_EXTENSIONS ==
  { <<".", "p", "n", "g">>, <<".", "j", "p", "g">>, <<".", "j", "p", "e", "g">>,
    <<".", "w", "e", "b", "p">> }

\* the part of an allowed type after the slash: type.split('/')[1]
SubType(type) == SubSeq(type, 7, Len(type))

\* contentType?.toLowerCase(): absent stays absent
LowerOpt(o) == IF o = Null THEN Null ELSE Some(toLowerCase(Val(o)))

\* the test of messageCreate that finds the image attachment of a message
isImageAttachment(attachment) ==
  LET contentType == IF attachment.contentType = Null THEN <<>>
                     ELSE toLowerCase(Val(attachment.contentType))
      url == toLowerCase(attachment.url)
  IN  \/ \E type \in ALLOWED_IMAGE_TYPES : includes(contentType, SubType(type))
      \/ \E ext \in ALLOWED_EXTENSIONS : includes(url, ext)

validateAttachment(attachment) ==
  LET contentType == LowerOpt(attachment.contentType)
      hasType == contentType # Null /\ contentType # Some(<<>>)
      url == toLowerCase(attachment.url)
      hasValidExtension == \E ext \in ALLOWED_EXTENSIONS : includes(url, ext)
  IN  IF attachment.size > MAX_FILE_SIZE
        THEN [valid |-> FALSE, reason |-> "FILE_TOO_LARGE"]
      ELSE IF hasType /\ Val(contentType) \notin ALLOWED_IMAGE_TYPES
        THEN [valid |-> FALSE, reason |-> "FAIL_INVALID_IMAGE"]
      ELSE IF ~hasValidExtension /\ ~hasType
        THEN [valid |-> FALSE, reason |-> "FAIL_INVALID_IMAGE"]
      ELSE [valid |-> TRUE, reason |-> "null"]

\* attachments of the sampled messages
Attachment(size, contentType, url) ==
  [size |-> size, contentType |-> contentType, url |-> url]

AttachmentSamples ==
  { Attachment(1024, Some(<<"i", "m", "a", "g", "e", "/", "p", "n", "g">>),
               <<"a", ".", "p", "n", "g">>),
    Attachment(1024, Some(<<"I", "M", "A", "G", "E", "/", "P", "N", "G">>),
               <<"a">>),
    Attachment(1024, Null, <<"A", ".", "J", "P", "G">>),
    Attachment(MAX_FILE_SIZE + 1, Some(<<"i", "m", "a", "g", "e", "/", "p", "n", "g">>),
               <<"a", ".", "p", "n", "g">>),
    Attachment(1024, Some(<<"t", "e", "x", "t", "/", "p", "n", "g">>),
               <<"a", ".", "p", "n", "g">>),
    Attachment(1024, Some(<<"t", "e", "x", "t", "/", "x">>), <<"a", ".", "t", "x", "t">>) }

\* the sampled attachments that messageCreate takes for an image, and
\* validateAttachment on each of them (tables, so that they are evaluated once)
ImageAttachments == {attachment \in AttachmentSamples : isImageAttachment(attachment)}
Validations == [attachment \in ImageAttachments |-> validateAttachment(attachment)]

\* checkCooldown with the map as it leaves it; t is Date.now()
checkCooldown_neverOn(cd, userId, t) ==
  [onCooldown |-> FALSE, remainingTime |-> 0, cooldowns |-> cd]

checkCooldown(cd, userId, t) ==
  LET lastAttempt == cd[userId]
      elapsed == t - Val(lastAttempt)
      remaining == COOLDOWN_MS - elapsed
  IN  IF lastAttempt = Null \/ lastAttempt = Some(0)
        THEN [onCooldown |-> FALSE, remainingTime |-> 0, cooldowns |-> cd]
      ELSE IF remaining <= 0
        THEN [onCooldown |-> FALSE, remainingTime |-> 0,
              cooldowns |-> [cd EXCEPT ![userId] = Null]]
      ELSE [onCooldown |-> TRUE, remainingTime |-> remaining, cooldowns |-> cd]

\* setCooldown that writes nothing
setCooldown_never(cd, userId, t) == cd

setCooldown(cd, userId, t) == [cd EXCEPT ![userId] = Some(t)]

\* isAlreadyVerified with the cache as it leaves it
isAlreadyVerified(cache, holders, member) ==
  IF member \in cache THEN [verified |-> TRUE, cache |-> cache]
  ELSE IF member \in holders THEN [verified |-> TRUE, cache |-> cache \cup {member}]
  ELSE [verified |-> FALSE, cache |-> cache]

updateStats(st, type) ==
  LET counted == [st EXCEPT !.totalAttempts = @ + 1]
  IN  CASE type = "success" -> [counted EXCEPT !.successfulVerifications = @ + 1]
        [] type = "failure" -> [counted EXCEPT !.failedVerifications = @ + 1]
        [] type = "ocr" -> [counted EXCEPT !.ocrVerifications = @ + 1]
        [] type = "mapleranks" -> [counted EXCEPT !.mapleRanksVerifications = @ + 1]
        [] OTHER -> counted

\* the statistics after a verdict of the given method
statsAfter(st, method, result) ==
  updateStats(updateStats(st, method), IF result.success THEN "success" ELSE "failure")

\* the gates of handleScreenshotVerification with the cooldown check first
Gate_cooldownFirst(valid, verified, onCooldown) ==
  IF onCooldown THEN "cooldown"
  ELSE IF ~valid THEN "invalid"
  ELSE IF verified THEN "already"
  ELSE "pass"

\* the gates of handleScreenshotVerification (and, with valid = TRUE, of
\* handleMapleRanksVerification) in the order of the code: the name of the gate
\* that rejects, or "pass"
Gate(valid, verified, onCooldown) ==
  IF ~valid THEN "invalid"
  ELSE IF verified THEN "already"
  ELSE IF onCooldown THEN "cooldown"
  ELSE "pass"

\* the results verifyFromScreenshot returns for the sampled images, and for a
\* failed download
ScreenshotVerdicts ==
  { verifyFromScreenshot(FALSE, "",
                         processResult([text |-> img, confidence |-> 95], "google_vision")) :
      img \in ImageTexts }
  \cup {verifyFromScreenshot(TRUE, "download", NoProc)}

NoAttempt ==
  [kind |-> "none", user |-> "", pc |-> "new", valid |-> FALSE, gate |-> "none",
   at |-> 0, remaining |-> 0, ocrCalled |-> FALSE, result |-> NoResult]

NoStats ==
  [totalAttempts |-> 0, successfulVerifications |-> 0, failedVerifications |-> 0,
   ocrVerifications |-> 0, mapleRanksVerifications |-> 0]

NoCooldowns == [u \in Users |-> Null]
NoAttempts == [a \in Attempts |-> NoAttempt]

\* the next message to be handled
Arrives(a) ==
  /\ att[a].pc = "new"
  /\ IF a = 1 THEN TRUE ELSE att[a - 1].pc # "new"

\* AfterGates with setCooldown called before the cooldown check rejects
AfterGates_extends(gate, user, verified, cooldown) ==
  /\ verifiedUsersCache' = IF gate = "invalid" THEN verifiedUsersCache
                           ELSE verified.cache
  /\ cooldowns' = IF gate \in {"invalid", "already"} THEN cooldowns
                  ELSE setCooldown(cooldown.cooldowns, user, now)

\* the cache and the cooldown map after the gates: a gate that is not reached
\* leaves no trace
AfterGates(gate, user, verified, cooldown) ==
  /\ verifiedUsersCache' = IF gate = "invalid" THEN verifiedUsersCache
                           ELSE verified.cache
  /\ cooldowns' = IF gate \in {"invalid", "already"} THEN cooldowns
                  ELSE IF gate = "cooldown" THEN cooldown.cooldowns
                  ELSE setCooldown(cooldown.cooldowns, user, now)

\* handleScreenshotVerification up to its first await: the gates, then the
\* rejection reply or the processing reaction
handleScreenshotVerification(a) ==
  /\ Arrives(a)
  /\ \E user \in Users, attachment \in ImageAttachments :
       /\ LET validation == Validations[attachment]
              verified == isAlreadyVerified(verifiedUsersCache, roles, user)
              cooldown == checkCooldown(cooldowns, user, now)
              gate == Gate(validation.valid, verified.verified, cooldown.onCooldown)
          IN  /\ AfterGates(gate, user, verified, cooldown)
              /\ att' = [att EXCEPT ![a] =
                           [NoAttempt EXCEPT
                              !.kind = "screenshot", !.user = user,
                              !.valid = validation.valid, !.gate = gate, !.at = now,
                              !.remaining = IF gate = "cooldown"
                                              THEN cooldown.remainingTime ELSE 0,
                              !.pc = IF gate = "pass" THEN "reacting" ELSE "rejected"]]
  /\ UNCHANGED <<now, roles, stats>>

\* the processing reaction is sent; verifier.verifyFromScreenshot is called
\* and starts the download
VerifyFromScreenshotCalled(a) ==
  /\ att[a].pc = "reacting"
  /\ att' = [att EXCEPT ![a] = [@ EXCEPT !.pc = "ocr", !.ocrCalled = TRUE]]
  /\ UNCHANGED <<now, cooldowns, verifiedUsersCache, roles, stats>>

\* VerifyFromScreenshotResolved with the cooldown given back on a failed verdict
VerifyFromScreenshotResolved_refunds(a) ==
  /\ att[a].pc = "ocr"
  /\ \E result \in ScreenshotVerdicts :
       /\ stats' = statsAfter(stats, "ocr", result)
       /\ cooldowns' = IF result.success THEN cooldowns
                       ELSE [cooldowns EXCEPT ![att[a].user] = Null]
       /\ att' = [att EXCEPT ![a] =
                    [@ EXCEPT !.result = result,
                              !.pc = IF result.success THEN "addingRole" ELSE "done"]]
  /\ UNCHANGED <<now, verifiedUsersCache, roles>>

\* verifyFromScreenshot resolves: the statistics are updated and, on success,
\* member.roles.add is called
VerifyFromScreenshotResolved(a) ==
  /\ att[a].pc = "ocr"
  /\ \E result \in ScreenshotVerdicts :
       /\ stats' = statsAfter(stats, "ocr", result)
       /\ att' = [att EXCEPT ![a] =
                    [@ EXCEPT !.result = result,
                              !.pc = IF result.success THEN "addingRole" ELSE "done"]]
  /\ UNCHANGED <<now, cooldowns, verifiedUsersCache, roles>>

\* handleMapleRanksVerification once findMapleRanksRequester has resolved
\* without a requester
MapleRanksNoRequester(a) ==
  /\ Arrives(a)
  /\ att' = [att EXCEPT ![a] =
               [NoAttempt EXCEPT !.kind = "mapleranks", !.pc = "skipped",
                                 !.gate = "norequester", !.at = now]]
  /\ UNCHANGED <<now, cooldowns, verifiedUsersCache, roles, stats>>

\* handleMapleRanksVerification once findMapleRanksRequester has resolved with
\* the requester: the gates, verifyFromMapleRanks, the statistics and, on
\* success, the call of requester.roles.add
handleMapleRanksVerification(a) ==
  /\ Arrives(a)
  /\ \E user \in Users, m \in DOMAIN MapleVerdicts :
       LET verified == isAlreadyVerified(verifiedUsersCache, roles, user)
           cooldown == checkCooldown(cooldowns, user, now)
           gate == Gate(TRUE, verified.verified, cooldown.onCooldown)
           result == MapleVerdicts[m]
       IN  /\ AfterGates(gate, user, verified, cooldown)
           /\ stats' = IF gate = "pass" THEN statsAfter(stats, "mapleranks", result)
                       ELSE stats
           /\ att' = [att EXCEPT ![a] =
                        [NoAttempt EXCEPT
                           !.kind = "mapleranks", !.user = user, !.valid = TRUE,
                           !.gate = gate, !.at = now,
                           !.remaining = IF gate = "cooldown"
                                           THEN cooldown.remainingTime ELSE 0,
                           !.result = IF gate = "pass" THEN result ELSE NoResult,
                           !.pc = IF gate # "pass" THEN "rejected"
                                  ELSE IF result.success THEN "addingRole"
                                  ELSE "done"]]
  /\ UNCHANGED <<now, roles>>

\* roles.add resolves: the member holds the role and is put in the cache
RoleAdded(a) ==
  /\ att[a].pc = "addingRole"
  /\ roles' = roles \cup {att[a].user}
  /\ verifiedUsersCache' = verifiedUsersCache \cup {att[a].user}
  /\ att' = [att EXCEPT ![a].pc = "done"]
  /\ UNCHANGED <<now, cooldowns, stats>>

\* RoleAddRejected with the member put in the cache all the same
RoleAddRejected_caches(a) ==
  /\ att[a].pc = "addingRole"
  /\ att' = [att EXCEPT ![a].pc = "error"]
  /\ verifiedUsersCache' = verifiedUsersCache \cup {att[a].user}
  /\ UNCHANGED <<now, cooldowns, roles, stats>>

\* roles.add rejects: the catch block of the handler reports the error
RoleAddRejected(a) ==
  /\ att[a].pc = "addingRole"
  /\ att' = [att EXCEPT ![a].pc = "error"]
  /\ UNCHANGED <<now, cooldowns, verifiedUsersCache, roles, stats>>

\* cleanupCooldowns, run by setInterval
cleanupCooldowns ==
  /\ cooldowns' = [u \in Users |->
                     IF cooldowns[u] # Null /\ now - Val(cooldowns[u]) > COOLDOWN_MS
                       THEN Null ELSE cooldowns[u]]
  /\ cooldowns' # cooldowns
  /\ UNCHANGED <<now, verifiedUsersCache, roles, stats, att>>

\* time passes
Tick ==
  /\ now < StartTime + MaxTicks * TickMs
  /\ now' = now + TickMs
  /\ UNCHANGED <<cooldowns, verifiedUsersCache, roles, stats, att>>

HandlerNext ==
  \/ \E a \in Attempts : handleScreenshotVerification(a)
  \/ \E a \in Attempts : VerifyFromScreenshotCalled(a)
  \/ \E a \in Attempts : VerifyFromScreenshotResolved(a)
  \/ \E a \in Attempts : MapleRanksNoRequester(a)
  \/ \E a \in Attempts : handleMapleRanksVerification(a)
  \/ \E a \in Attempts : RoleAdded(a)
  \/ \E a \in Attempts : RoleAddRejected(a)
  \/ cleanupCooldowns
  \/ Tick

(***************************************************************************)
(* The cooldown map under the clock (src/src/utils.js): the gate calls of   *)
(* the attempts and the periodic sweep                                      *)
(***************************************************************************)
MaxSweeps == 3

\* setInterval(cleanupCooldowns, 5 * 60 * 1000)
SWEEP_MS == 5 * 60 * 1000

\* the timer was set when the module was loaded and has not run yet
NoSweep == [at |-> StartTime, removed |-> {}]

\* cleanupCooldowns with the comparison the wrong way round
cleanup_signFlipped(cd, t) ==
  [u \in Users |->
     IF cd[u] # Null /\ Val(cd[u]) - t > COOLDOWN_MS THEN Null ELSE cd[u]]

\* the map as cleanupCooldowns leaves it; t is Date.now()
cleanup(cd, t) ==
  [u \in Users |->
     IF cd[u] # Null /\ t - Val(cd[u]) > COOLDOWN_MS THEN Null ELSE cd[u]]

\* the interval of the timer has elapsed since its latest run
SweepDue == now - sweep.at >= SWEEP_MS

\* the timer fires: cleanupCooldowns runs
SweepTimer ==
  /\ SweepDue
  /\ cooldowns' = cleanup(cooldowns, now)
  /\ sweep' = [at |-> sweep.at + SWEEP_MS,
               removed |-> {u \in Users : cooldowns[u] # cleanup(cooldowns, now)[u]}]
  /\ UNCHANGED now

\* an attempt of userId reaches the cooldown gate: checkCooldown, and
\* setCooldown if it is not on cooldown
CooldownGate(userId) ==
  /\ cooldowns' = IF checkCooldown(cooldowns, userId, now).onCooldown
                    THEN checkCooldown(cooldowns, userId, now).cooldowns
                    ELSE setCooldown(checkCooldown(cooldowns, userId, now).cooldowns,
                                     userId, now)
  /\ UNCHANGED <<now, sweep>>

\* time passes, once the callbacks that are due have run
StoreTick ==
  /\ ~SweepDue
  /\ now < StartTime + MaxSweeps * SWEEP_MS
  /\ now' = now + TickMs
  /\ UNCHANGED <<cooldowns, sweep>>

StoreNext ==
  \/ \E userId \in Users : CooldownGate(userId)
  \/ SweepTimer
  \/ StoreTick

(***************************************************************************)
(* The administrator subcommands of /verify (src/src/utils.js): override,   *)
(* unverify and cooldown, run concurrently with the message handlers        *)
(***************************************************************************)
MaxCommands == 1
MaxAdminAttempts == 1

Commands == 1..MaxCommands

\* the attempts that are made while the subcommands run
AdminAttempts == 1..MaxAdminAttempts

NoCommand == [kind |-> "none", target |-> "", pc |-> "new"]
NoCommands == [c \in Commands |-> NoCommand]

clearCooldown(cd, userId) == [cd EXCEPT ![userId] = Null]

addToVerifiedCache(cache, userId) == cache \cup {userId}

removeFromVerifiedCache(cache, userId) == cache \ {userId}

\* the next interaction to be handled
Invoked(c) ==
  /\ cmd[c].pc = "new"
  /\ IF c = 1 THEN TRUE ELSE cmd[c - 1].pc # "new"

\* the command is at the given await of the given subcommand
Awaits(c, kind, pc) == cmd[c].kind = kind /\ cmd[c].pc = pc

\* any of the three subcommands, invoked by a member without the
\* Administrator permission: the reply, and nothing else
PermissionDenied(c) ==
  /\ Invoked(c)
  /\ \E kind \in {"override", "unverify", "cooldown"}, target \in Users :
       cmd' = [cmd EXCEPT ![c] = [kind |-> kind, target |-> target, pc |-> "denied"]]
  /\ UNCHANGED <<now, cooldowns, verifiedUsersCache, roles, stats, att>>

\* handleOverride by an administrator, up to guild.members.fetch
handleOverride(c) ==
  /\ Invoked(c)
  /\ \E target \in Users :
       cmd' = [cmd EXCEPT ![c] = [kind |-> "override", target |-> target,
                                  pc |-> "fetching"]]
  /\ UNCHANGED <<now, cooldowns, verifiedUsersCache, roles, stats, att>>

\* the member is fetched: isAlreadyVerified, then the reply or the call of
\* targetMember.roles.add
OverrideFetched(c) ==
  /\ Awaits(c, "override", "fetching")
  /\ LET verified == isAlreadyVerified(verifiedUsersCache, roles, cmd[c].target)
     IN  /\ verifiedUsersCache' = verified.cache
         /\ cmd' = [cmd EXCEPT ![c].pc = IF verified.verified THEN "already"
                                         ELSE "addingRole"]
  /\ UNCHANGED <<now, cooldowns, roles, stats, att>>

\* roles.add resolves: addToVerifiedCache, the log and the replies
OverrideRoleAdded(c) ==
  /\ Awaits(c, "override", "addingRole")
  /\ roles' = roles \cup {cmd[c].target}
  /\ verifiedUsersCache' = addToVerifiedCache(verifiedUsersCache, cmd[c].target)
  /\ cmd' = [cmd EXCEPT ![c].pc = "done"]
  /\ UNCHANGED <<now, cooldowns, stats, att>>

\* handleUnverify by an administrator, up to guild.members.fetch
handleUnverify(c) ==
  /\ Invoked(c)
  /\ \E target \in Users :
       cmd' = [cmd EXCEPT ![c] = [kind |-> "unverify", target |-> target,
                                  pc |-> "fetching"]]
  /\ UNCHANGED <<now, cooldowns, verifiedUsersCache, roles, stats, att>>

\* the member is fetched: without the role the reply is "not verified" and the
\* handler returns, with it targetMember.roles.remove is called
UnverifyFetched(c) ==
  /\ Awaits(c, "unverify", "fetching")
  /\ cmd' = [cmd EXCEPT ![c].pc = IF cmd[c].target \notin roles THEN "notVerified"
                                  ELSE "removingRole"]
  /\ UNCHANGED <<now, cooldowns, verifiedUsersCache, roles, stats, att>>

\* roles.remove resolves: removeFromVerifiedCache, the log and the reply
UnverifyRoleRemoved(c) ==
  /\ Awaits(c, "unverify", "removingRole")
  /\ roles' = roles \ {cmd[c].target}
  /\ verifiedUsersCache' = removeFromVerifiedCache(verifiedUsersCache, cmd[c].target)
  /\ cmd' = [cmd EXCEPT ![c].pc = "done"]
  /\ UNCHANGED <<now, cooldowns, stats, att>>

\* members.fetch, roles.add or roles.remove rejects: the catch block replies
\* with the error
CommandRejected(c) ==
  /\ cmd[c].pc \in {"fetching", "addingRole", "removingRole"}
  /\ cmd' = [cmd EXCEPT ![c].pc = "error"]
  /\ UNCHANGED <<now, cooldowns, verifiedUsersCache, roles, stats, att>>

\* handleCooldown by an administrator: clearCooldown before the first await
handleCooldown(c) ==
  /\ Invoked(c)
  /\ \E target \in Users :
       /\ cooldowns' = clearCooldown(cooldowns, target)
       /\ cmd' = [cmd EXCEPT ![c] = [kind |-> "cooldown", target |-> target,
                                     pc |-> "done"]]
  /\ UNCHANGED <<now, verifiedUsersCache, roles, stats, att>>

\* the role is taken from a member in the guild itself, not by the bot
RoleRemovedInGuild ==
  /\ \E member \in roles : roles' = roles \ {member}
  /\ UNCHANGED <<now, cooldowns, verifiedUsersCache, stats, att, cmd>>

AdminNext ==
  \/ \E c \in Commands : PermissionDenied(c)
  \/ \E c \in Commands : handleOverride(c)
  \/ \E c \in Commands : OverrideFetched(c)
  \/ \E c \in Commands : OverrideRoleAdded(c)
  \/ \E c \in Commands : handleUnverify(c)
  \/ \E c \in Commands : UnverifyFetched(c)
  \/ \E c \in Commands : UnverifyRoleRemoved(c)
  \/ \E c \in Commands : CommandRejected(c)
  \/ \E c \in Commands : handleCooldown(c)
  \/ RoleRemovedInGuild
  \/ \E a \in AdminAttempts : handleScreenshotVerification(a) /\ UNCHANGED cmd
  \/ \E a \in AdminAttempts : VerifyFromScreenshotCalled(a) /\ UNCHANGED cmd
  \/ \E a \in AdminAttempts : VerifyFromScreenshotResolved(a) /\ UNCHANGED cmd
  \/ \E a \in AdminAttempts : handleMapleRanksVerification(a) /\ UNCHANGED cmd
  \/ \E a \in AdminAttempts : RoleAdded(a) /\ UNCHANGED cmd
  \/ \E a \in AdminAttempts : RoleAddRejected(a) /\ UNCHANGED cmd

(***************************************************************************)
(* downloadImage (src/unnamed/part_000 and src/src/ocr.js): the requests of *)
(* one call, the redirects it follows and the idle timer of its requests    *)
(***************************************************************************)
Urls == {"x", "y"}

\* the two versions of the function: only src/unnamed/part_000 sets a timeout
Versions == {"part_000", "ocrjs"}

\* what the server does with a request for a URL: nothing at all, an error of
\* the connection, or a response with a status, a Location header (or none)
\* and a body that ends, stalls or fails
Behaviour(kind, status, location, body) ==
  [kind |-> kind, status |-> status, location |-> location, body |-> body]

ServerBehaviours ==
  { Behaviour("silent", 0, Null, "none"), Behaviour("error", 0, Null, "none"),
    Behaviour("response", 404, Null, "none") }
  \cup { Behaviour("response", 200, Null, body) : body \in {"ends", "stalls", "errors"} }
  \cup { Behaviour("response", status, location, "none") :
           status \in {301, 302}, location \in {Null} \cup {Some(url) : url \in Urls} }

NoDownload ==
  [version |-> "part_000", server |-> [url \in Urls |-> Behaviour("silent", 0, Null, "none")],
   url |-> "", pc |-> "idle", status |-> 0, opened |-> FALSE]

\* request.setTimeout(30000, ...) of src/unnamed/part_000; src/src/ocr.js has
\* no counterpart
hasTimeout(version) == version = "part_000"

\* downloadImage(url) is called: protocol.get sends the request
downloadImage ==
  /\ dl.pc = "idle"
  /\ \E url \in Urls : dl' = [dl EXCEPT !.url = url, !.pc = "request"]

\* the response callback runs with a status of 301 or 302
RedirectReceived ==
  /\ dl.pc = "request"
  /\ dl.server[dl.url].kind = "response"
  /\ dl.server[dl.url].status \in {301, 302}
  /\ dl' = [dl EXCEPT !.pc = "redirected", !.status = dl.server[dl.url].status]

\* return downloadImage(response.headers.location).then(resolve).catch(reject):
\* the next request is sent, or the call throws on a missing Location and
\* the promise rejects.  The connection of the answered request is closed by
\* the server or stays open and idle, with its timer.
FollowRedirect ==
  /\ dl.pc = "redirected"
  /\ IF dl.server[dl.url].location = Null
       THEN dl' = [dl EXCEPT !.pc = "rejected"]
       ELSE \E keepAlive \in BOOLEAN :
              dl' = [dl EXCEPT !.url = Val(dl.server[dl.url].location),
                               !.pc = "request",
                               !.opened = @ \/ (keepAlive /\ hasTimeout(dl.version))]

\* the response callback runs with a status that is neither 200 nor a redirect
StatusRejected ==
  /\ dl.pc = "request"
  /\ dl.server[dl.url].kind = "response"
  /\ dl.server[dl.url].status \notin {200, 301, 302}
  /\ dl' = [dl EXCEPT !.pc = "rejected", !.status = dl.server[dl.url].status]

\* the response callback runs with status 200: the listeners of the body
OkReceived ==
  /\ dl.pc = "request"
  /\ dl.server[dl.url].kind = "response"
  /\ dl.server[dl.url].status = 200
  /\ dl' = [dl EXCEPT !.pc = "body", !.status = 200]

\* 'end': resolve(Buffer.concat(chunks))
BodyEnds ==
  /\ dl.pc = "body"
  /\ dl.server[dl.url].body = "ends"
  /\ dl' = [dl EXCEPT !.pc = "resolved"]

\* 'error' of the response
BodyErrors ==
  /\ dl.pc = "body"
  /\ dl.server[dl.url].body = "errors"
  /\ dl' = [dl EXCEPT !.pc = "rejected"]

\* 'error' of the request
RequestErrors ==
  /\ dl.pc = "request"
  /\ dl.server[dl.url].kind = "error"
  /\ dl' = [dl EXCEPT !.pc = "rejected"]

\* the timer of the request in flight fires on its idle connection:
\* request.destroy() and reject(new Error('Image download timeout'))
TimeoutFires ==
  /\ dl.pc \in {"request", "body"}
  /\ hasTimeout(dl.version)
  /\ dl' = [dl EXCEPT !.pc = "rejected"]

\* the timer of an answered request fires on a connection left open: its
\* promise rejects, and with it every promise that waits for it
EarlierTimeoutFires ==
  /\ dl.pc \in {"request", "body"}
  /\ dl.opened
  /\ dl' = [dl EXCEPT !.pc = "rejected"]

FetchNext ==
  \/ downloadImage
  \/ RedirectReceived
  \/ FollowRedirect
  \/ StatusRejected
  \/ OkReceived
  \/ BodyEnds
  \/ BodyErrors
  \/ RequestErrors
  \/ TimeoutFires
  \/ EarlierTimeoutFires

(***************************************************************************)
(* Specifications                                                          *)
(***************************************************************************)
\* calls of the pure functions on the sampled inputs
InitPure ==
  /\ inp \in PureInputs
  /\ outp = NoCall
  /\ apiKey = FALSE /\ worker = 0 /\ workerParams = {} /\ created = 0
  /\ call = IdleCalls
  /\ now = StartTime
  /\ cooldowns = NoCooldowns
  /\ verifiedUsersCache = {} /\ roles = {}
  /\ stats = NoStats
  /\ att = NoAttempts
  /\ sweep = NoSweep
  /\ cmd = NoCommands
  /\ dl = NoDownload

SpecPure == InitPure /\ [][PureNext /\ UNCHANGED <<ocrVars, handlerVars, timerVars, adminVars, fetchVars>>]_vars

\* the recognition pipeline: the ready handler and MaxCalls concurrent calls of
\* the verifier; the API key of the remote backend is set or not
InitOcr ==
  /\ inp = NoInput
  /\ outp = NoCall
  /\ apiKey \in BOOLEAN
  /\ worker = 0 /\ workerParams = {} /\ created = 0
  /\ call = IdleCalls
  /\ now = StartTime
  /\ cooldowns = NoCooldowns
  /\ verifiedUsersCache = {} /\ roles = {}
  /\ stats = NoStats
  /\ att = NoAttempts
  /\ sweep = NoSweep
  /\ cmd = NoCommands
  /\ dl = NoDownload

SpecOcr == InitOcr /\ [][OcrNext /\ UNCHANGED <<pureVars, handlerVars, timerVars, adminVars, fetchVars>>]_vars

\* the message handlers: MaxAttempts attempts, the clock and the sweep.  The
\* bot starts with empty maps; members may hold the role already.
Init ==
  /\ inp = NoInput
  /\ outp = NoCall
  /\ apiKey = FALSE /\ worker = 0 /\ workerParams = {} /\ created = 0
  /\ call = IdleCalls
  /\ now = StartTime
  /\ cooldowns = NoCooldowns
  /\ verifiedUsersCache = {}
  /\ roles \in SUBSET Users
  /\ stats = NoStats
  /\ att = NoAttempts
  /\ sweep = NoSweep
  /\ cmd = NoCommands
  /\ dl = NoDownload

Spec == Init /\ [][HandlerNext /\ UNCHANGED <<pureVars, ocrVars, timerVars, adminVars, fetchVars>>]_vars

\* the cooldown map under the clock: attempts that reach the cooldown gate and
\* the sweep, run by its timer every SWEEP_MS for MaxSweeps intervals
InitStore ==
  /\ inp = NoInput
  /\ outp = NoCall
  /\ apiKey = FALSE /\ worker = 0 /\ workerParams = {} /\ created = 0
  /\ call = IdleCalls
  /\ now = StartTime
  /\ cooldowns = NoCooldowns
  /\ verifiedUsersCache = {} /\ roles = {}
  /\ stats = NoStats
  /\ att = NoAttempts
  /\ sweep = NoSweep
  /\ cmd = NoCommands
  /\ dl = NoDownload

StoreStep ==
  StoreNext /\ UNCHANGED <<pureVars, ocrVars, verifiedUsersCache, roles, stats, att, cmd, dl>>

\* a due timer callback is run and the clock goes on: the event loop is never
\* blocked for good
SpecStore ==
  /\ InitStore
  /\ [][StoreStep]_vars
  /\ WF_vars(SweepTimer
               /\ UNCHANGED <<pureVars, ocrVars, verifiedUsersCache, roles, stats, att, cmd, dl>>)
  /\ WF_vars(StoreTick
               /\ UNCHANGED <<pureVars, ocrVars, verifiedUsersCache, roles, stats, att, cmd, dl>>)

\* the subcommands of the administrators beside the attempts, while members
\* lose the role in the guild; the clock stands still
InitAdmin ==
  /\ inp = NoInput
  /\ outp = NoCall
  /\ apiKey = FALSE /\ worker = 0 /\ workerParams = {} /\ created = 0
  /\ call = IdleCalls
  /\ now = StartTime
  /\ cooldowns = NoCooldowns
  /\ verifiedUsersCache = {}
  /\ roles \in SUBSET Users
  /\ stats = NoStats
  /\ att = NoAttempts
  /\ sweep = NoSweep
  /\ cmd = NoCommands
  /\ dl = NoDownload

SpecAdmin == InitAdmin /\ [][AdminNext /\ UNCHANGED <<pureVars, ocrVars, timerVars, fetchVars>>]_vars

\* one call of downloadImage of either version against every sampled server.
\* The event loop runs the callbacks that are due; a timer that is armed on an
\* open connection fires unless the connection is used or closed first.
InitFetch ==
  /\ inp = NoInput
  /\ outp = NoCall
  /\ apiKey = FALSE /\ worker = 0 /\ workerParams = {} /\ created = 0
  /\ call = IdleCalls
  /\ now = StartTime
  /\ cooldowns = NoCooldowns
  /\ verifiedUsersCache = {} /\ roles = {}
  /\ stats = NoStats
  /\ att = NoAttempts
  /\ sweep = NoSweep
  /\ cmd = NoCommands
  /\ dl \in {[NoDownload EXCEPT !.version = version, !.server = server] :
               version \in Versions, server \in [Urls -> ServerBehaviours]}

FetchStep ==
  FetchNext /\ UNCHANGED <<pureVars, ocrVars, handlerVars, timerVars, adminVars>>

SpecFetch ==
  /\ InitFetch
  /\ [][FetchStep]_vars
  /\ WF_vars(FetchStep)
  /\ SF_vars(EarlierTimeoutFires
               /\ UNCHANGED <<pureVars, ocrVars, handlerVars, timerVars, adminVars>>)

(***************************************************************************)
(* Claims about the pure functions (checked under SpecPure)                *)
(***************************************************************************)
\* the tag is absent: null, undefined or the empty string
TagAbsent(tag) == tag = Null \/ Val(tag) = <<>>

\* the tag equals the required tag up to case
TagMatches(tag) ==
  /\ ~TagAbsent(tag)
  /\ Len(Val(tag)) = Len(REQUIRED_CLASS)
  /\ \A i \in 1..Len(REQUIRED_CLASS) :
       LowerChar(Val(tag)[i]) = LowerChar(REQUIRED_CLASS[i])

\* C1: checkRequirements returns the reason of the first rule that applies, in
\* the order: tag absent -> NO_TAG; tag not the required tag (up to case) ->
\* WRONG_TAG; level absent -> NO_LEVEL; level below 240 -> LOW_LEVEL, with the
\* detected level in the message; otherwise OK.
C1_Precedence ==
  outp.fn = "checkRequirements" =>
    LET code == outp.verdict.reason.code
    IN  /\ TagAbsent(inp.tag) => code = "FAIL_NO_CLASS"
        /\ (~TagAbsent(inp.tag) /\ ~TagMatches(inp.tag)) => code = "FAIL_WRONG_CLASS"
        /\ (TagMatches(inp.tag) /\ inp.level = Null) => code = "FAIL_NO_LEVEL"
        /\ (TagMatches(inp.tag) /\ inp.level # Null /\ Val(inp.level) < 240) =>
             /\ code = "FAIL_LOW_LEVEL"
             /\ outp.verdict.reason.detected = inp.level
        /\ (TagMatches(inp.tag) /\ inp.level # Null /\ Val(inp.level) >= 240) =>
             code = "SUCCESS"

\* a wrong tag together with a missing level was judged, and reported WRONG_TAG
C1_Witness ==
  /\ outp.fn = "checkRequirements"
  /\ inp.tag = Some(<<"w", "a", "r", "r", "i", "o", "r">>)
  /\ inp.level = Null
  /\ outp.verdict.reason.code = "FAIL_WRONG_CLASS"

\* C2: every call of checkRequirements, absent tag and absent level included,
\* returns exactly one of the five reasons, and success is true exactly when
\* the reason is the success reason.
C2_TotalAndConsistent ==
  outp.fn = "checkRequirements" =>
    /\ outp.verdict.reason.code \in
         {"FAIL_NO_CLASS", "FAIL_WRONG_CLASS", "FAIL_NO_LEVEL", "FAIL_LOW_LEVEL", "SUCCESS"}
    /\ outp.verdict.success <=> (outp.verdict.reason.code = "SUCCESS")

\* the required tag with a level below the threshold was judged a failure
C2_Witness ==
  /\ outp.fn = "checkRequirements"
  /\ inp.tag = Some(<<"K", "a", "i", "n">>)
  /\ inp.level = Some(239)
  /\ ~outp.verdict.success
  /\ outp.verdict.reason.code = "FAIL_LOW_LEVEL"

\* C9: the level parseOCRText returns (either module) is absent or an integer
\* in 200..300, also when an out-of-range number follows a level indicator.
C9_LevelBound ==
  outp.fn \in {"parseOCRText", "parseOCRText_ocrjs"} =>
    \/ outp.parsed.level = Null
    \/ (Val(outp.parsed.level) >= 200 /\ Val(outp.parsed.level) <= 300)

\* "level 301": an out-of-range number after the indicator was parsed, and the
\* level is absent
C9_Witness ==
  /\ outp.fn = "parseOCRText"
  /\ inp.text = <<"l", "e", "v", "e", "l", " ", "3", "0", "1">>
  /\ outp.parsed.level = Null

\* the text holds the tag, or a misread form of it, as a word of its own
HasTagWord(text) ==
  \E k \in 1..Len(classPatterns) : TestWord(classPatterns[k], text)

\* C10: a text in which the tag and its misread forms occur only inside a
\* longer word, or only by joining words across whitespace, yields no tag.
C10_WordBoundary ==
  (outp.fn = "parseOCRText" /\ ~HasTagWord(inp.text)) => outp.parsed.class = Null

\* the same statement for parseOCRText of src/src/ocr.js, which anchors every
\* pattern with \b
C10_WordBoundary_ocrjs ==
  (outp.fn = "parseOCRText_ocrjs"
     /\ ~(\E k \in 1..Len(classPatterns_ocrjs) : TestWord(classPatterns_ocrjs[k], inp.text)))
    => outp.parsed.class = Null

\* the documented readings of the tag: the tag itself, 'i' read as 'l' or as
\* '1', and 'in' read as 'm'
TagReadings ==
  { <<{"k"}, {"a"}, {"i"}, {"n"}>>, <<{"k"}, {"a"}, {"l"}, {"n"}>>,
    <<{"k"}, {"a"}, {"1"}, {"n"}>>, <<{"k"}, {"a"}, {"m"}>> }

\* texts whose only class word is a clearly different word
OtherClassTexts ==
  { <<"w", "a", "r", "r", "i", "o", "r">>,
    <<"l", "v", " ", "2", "6", "0", " ", "w", "a", "r", "r", "i", "o", "r">> }

\* C11: a text that holds a documented reading of the tag ('kain', 'kaln',
\* 'ka1n', 'kam') as a word yields the tag 'kain' from parseOCRText (either
\* module), and a text whose only class word is 'warrior' yields no tag.
C11_TagTolerance ==
  outp.fn \in {"parseOCRText", "parseOCRText_ocrjs"} =>
    /\ (\A r \in TagReadings : TestWord(r, inp.text) => outp.parsed.class = Some(kain))
    /\ (inp.text \in OtherClassTexts => outp.parsed.class = Null)

\* "kaln" was parsed and gave the tag
C11_Witness ==
  /\ outp.fn = "parseOCRText"
  /\ inp.text = <<"k", "a", "l", "n">>
  /\ outp.parsed.class = Some(kain)

\* C13: scenario C, the recognized text "lv 260 warrior" passed through
\* parseOCRText and then checkRequirements yields the verdict WRONG_TAG.
C13_ScenarioC ==
  (outp.fn = "parseThenCheck"
     /\ inp.text = <<"l", "v", " ", "2", "6", "0", " ", "w", "a", "r", "r", "i", "o", "r">>)
    => outp.verdict.reason.code = "FAIL_WRONG_CLASS"

\* C14: scenario B, the recognized text "level 180 kain" passed through
\* parseOCRText and then checkRequirements yields the verdict LOW_LEVEL with
\* the detected level 180.
C14_ScenarioB ==
  (outp.fn = "parseThenCheck"
     /\ inp.text = <<"l", "e", "v", "e", "l", " ", "1", "8", "0", " ", "k", "a", "i", "n">>)
    => /\ outp.verdict.reason.code = "FAIL_LOW_LEVEL"
       /\ outp.verdict.reason.detected = Some(180)

\* C16: scenario A, the recognized text "lv.264 kain" passed through
\* parseOCRText yields the candidate {tag 'kain', level 264}, and
\* checkRequirements on it yields the verdict OK.
C16_ScenarioA ==
  (outp.fn = "parseThenCheck"
     /\ inp.text = <<"l", "v", ".", "2", "6", "4", " ", "k", "a", "i", "n">>)
    => /\ outp.parsed.class = Some(kain)
       /\ outp.parsed.level = Some(264)
       /\ outp.verdict.success
       /\ outp.verdict.reason.code = "SUCCESS"

\* "lv.264 kain" went through parseOCRText and checkRequirements and passed
C16_Witness ==
  /\ outp.fn = "parseThenCheck"
  /\ inp.text = <<"l", "v", ".", "2", "6", "4", " ", "k", "a", "i", "n">>
  /\ outp.verdict.success

(***************************************************************************)
(* Claims on the verifier calls and the recognition pipeline               *)
(***************************************************************************)
\* processScreenshot raised: the call ended without a value of processScreenshot
Raised(c) == c.pc = "done" /\ c.result.method = "screenshot_ocr" /\ c.proc = NoProc

FailedWith(r, code) ==
  /\ ~r.success
  /\ r.reason.code = code
  /\ r.detectedClass = Null
  /\ r.detectedLevel = Null

\* C5: verifyFromScreenshot and verifyFromMapleRanks never raise.  Every call
\* that has ended has returned a result; when processScreenshot raised (fetch,
\* variant generation, worker set-up) the result carries the error and is a
\* failed one with reason FAIL_OCR_ERROR and neither class nor level; a
\* MapleRanks result that carries an error is a failed one with FAIL_GENERIC.
C5_NeverRejects ==
  \A p \in Calls :
    call[p].pc = "done" =>
      /\ ~call[p].result.rejected
      /\ Raised(call[p]) => call[p].result.error # Null
      /\ call[p].vfail >= 0 => call[p].result.error # Null
      /\ call[p].result.error # Null =>
           FailedWith(call[p].result,
                      IF call[p].result.method = "screenshot_ocr"
                        THEN "FAIL_OCR_ERROR" ELSE "FAIL_GENERIC")

\* a screenshot call whose variant generation failed has ended
C5_Witness ==
  \E p \in Calls :
    /\ call[p].pc = "done"
    /\ call[p].vfail >= 0
    /\ call[p].result.error = Some("variants")
    /\ FailedWith(call[p].result, "FAIL_OCR_ERROR")

\* a MapleRanks call whose parsing raised has ended
C5_MapleRanksRaised ==
  \E p \in Calls :
    /\ call[p].pc = "done"
    /\ call[p].result.method = "mapleranks_bot"
    /\ call[p].result.error # Null

\* C6: under every interleaving of initWorker calls the worker is created at
\* most once, and worker.recognize is only called on a worker whose
\* setParameters has completed.
C6_InitOnce ==
  /\ created <= 1
  /\ \A p \in Calls :
       call[p].pc = "recognize" => call[p].recOn \in workerParams

\* the steps of call p
CallStep(p) ==
  \/ CreateWorkerResolved(p)
  \/ CreateWorkerRejected(p)
  \/ SetParametersResolved(p)
  \/ SetParametersRejected(p)
  \/ DownloadResolved(p)
  \/ DownloadRejected(p)
  \/ VisionText(p)
  \/ VisionNull(p)
  \/ VisionRejected(p)
  \/ VisionSilent(p)
  \/ VariantsResolved(p)
  \/ VariantsRejected(p)
  \/ RecognizeResolved(p)
  \/ RecognizeRejected(p)

\* C7: a remote backend that is absent or fails never makes the call fail or
\* stall: the call goes on to the local backend, and a call that has started
\* and not ended always has a step to take.  Text of the remote backend is used
\* with method google_vision and confidence 95, without the local backend.
C7_RemoteFallback ==
  \A p \in Calls :
    /\ call[p].remote \in {"noKey", "null", "reject"} => call[p].local
    /\ call[p].pc \notin {"idle", "done"} => ENABLED CallStep(p)
    /\ call[p].remote = "text" =>
         /\ ~call[p].local
         /\ call[p].k = 0
         /\ call[p].proc.method = "google_vision"
         /\ call[p].proc.confidence = 95

\* C8: a failure to produce one variant leaves the others to recognition (all
\* but one recognize calls are made and processScreenshot returns), and a
\* rejected recognize does not stop the loop (every variant is tried).
C8_VariantIsolation ==
  \A p \in Calls :
    call[p].pc = "done" /\ call[p].local =>
      /\ call[p].vfail >= 1 => call[p].k = NumVariants - 1 /\ ~Raised(call[p])
      /\ call[p].vfail = -1 /\ ~Raised(call[p]) => call[p].k = NumVariants

\* the recognize loop of call p ends in this step, and no variant gave any
\* text: every recognize was rejected, or the image shows no text
NoTextRecognized(p) ==
  /\ call[p].pc = "recognize"
  /\ call'[p].pc = "done"
  /\ call'[p].results = <<>> \/ call[p].img = <<>>

\* C15: scenario D, when recognition of every variant fails or yields no
\* text, tesseractOCR returns the empty text with confidence 0 and nothing is
\* raised, parseOCRText returns an absent tag and an absent level, and the
\* verdict is NO_TAG.
C15_ScenarioD ==
  [][\A p \in Calls :
       NoTextRecognized(p) =>
         /\ call'[p].proc # NoProc
         /\ call'[p].proc.rawText = <<>>
         /\ call'[p].proc.confidence = 0
         /\ call'[p].proc.class = Null
         /\ call'[p].proc.level = Null
         /\ call'[p].result.error = Null
         /\ call'[p].result.reason.code = "FAIL_NO_CLASS"]_vars

\* the message of scenario E: one embed with the field {name: "Level",
\* value: "Lv. 245"} and the tag in its description
ScenarioE ==
  Message(<<Embed(<<LevelField>>, Str(<<"K", "a", "i", "n">>), Undefined)>>, Str(<<>>))

\* C17: scenario E, the message with the field {Level, "Lv. 245"} and the tag
\* in the description is parsed to {tag 'kain', level 245} and
\* verifyFromMapleRanks returns OK; the verdict of every MapleRanks call that
\* parsed its message is that of checkRequirements on the parsed candidate.
C17_ScenarioE ==
  \A p \in Calls :
    (call[p].pc = "done" /\ call[p].msg # NoMessage) =>
      /\ call[p].msg = ScenarioE =>
           /\ call[p].result.detectedClass = Some(kain)
           /\ call[p].result.detectedLevel = Some(245)
           /\ call[p].result.success
           /\ call[p].result.reason.code = "SUCCESS"
           /\ call[p].result.method = "mapleranks_bot"
      /\ call[p].result.error = Null =>
           /\ call[p].result.reason =
                checkRequirements(call[p].result.detectedClass,
                                  call[p].result.detectedLevel).reason
           /\ call[p].result.success =
                checkRequirements(call[p].result.detectedClass,
                                  call[p].result.detectedLevel).success

\* verifyFromMapleRanks was called on the message of scenario E and passed it
C17_Witness ==
  \E p \in Calls :
    /\ call[p].pc = "done"
    /\ call[p].msg = ScenarioE
    /\ call[p].result.success

(***************************************************************************)
(* Claims on the cooldown map under the clock (checked under SpecStore)    *)
(***************************************************************************)
\* the age of the entry of u
Age(u) == now - Val(cooldowns[u])

\* the entry of u is older than the cooldown window
Stale(u) == cooldowns[u] # Null /\ Age(u) > COOLDOWN_MS

\* C18: with the sweep run by its timer, an entry that is older than the
\* cooldown window is eventually removed (by the sweep, or by the next
\* checkCooldown of its actor), and the map never holds an entry older than
\* the window plus one sweep interval.
C18_EntriesReclaimed ==
  /\ [](\A u \in Users : cooldowns[u] # Null => Age(u) <= COOLDOWN_MS + SWEEP_MS)
  /\ \A u \in Users : Stale(u) ~> ~Stale(u)

\* the sweep has just removed an entry, at the oldest age an entry can have
C18_Witness ==
  \E u \in Users :
    /\ cooldowns[u] = Null
    /\ u \in sweep.removed
    /\ now = sweep.at

(***************************************************************************)
(* Claims on the message handlers (checked under Spec)                     *)
(***************************************************************************)
\* the member counts as verified / is on cooldown when a message is handled
VerifiedNow(u) == u \in verifiedUsersCache \/ u \in roles
OnCooldownNow(u) ==
  cooldowns[u] # Null /\ now - Val(cooldowns[u]) < COOLDOWN_MS

\* attempt b of the actor of a reaches the gates within the window that a
\* opened by passing them
SameWindow(a, b) ==
  /\ a < b
  /\ att[a].gate = "pass"
  /\ att[b].gate \in {"pass", "already", "cooldown"}
  /\ att[b].user = att[a].user
  /\ att[b].at - att[a].at < COOLDOWN_MS

\* attempt a takes the step that passes the gates
PassesGate(a) == att[a].pc = "new" /\ att'[a].gate = "pass"

\* C3: of two attempts of one actor (screenshot or MapleRanks) within the
\* cooldown window exactly one passes the gate, the other is rejected there;
\* the step that finds the actor off cooldown is the step that sets the
\* cooldown, so that nothing runs in between.
C3_MutualExclusion ==
  /\ [](\A a, b \in Attempts :
          SameWindow(a, b) => att[b].gate \in {"already", "cooldown"})
  /\ [][\A a \in Attempts :
          PassesGate(a) =>
            /\ ~OnCooldownNow(att'[a].user)
            /\ cooldowns'[att'[a].user] = Some(now)]_vars

\* a screenshot attempt and a MapleRanks attempt of one actor at the same
\* time: the first has passed, the second is rejected as on cooldown
C3_Witness ==
  \E a, b \in Attempts :
    /\ SameWindow(a, b)
    /\ att[a].kind # att[b].kind
    /\ att[b].at = att[a].at
    /\ att[b].gate = "cooldown"

\* attempt a is a screenshot message that takes its first step
ScreenshotArrives(a) ==
  att[a].pc = "new" /\ att'[a].kind = "screenshot"

\* C4: a screenshot attempt goes through attachment validation, then the
\* already-verified check, then the cooldown check, and only an attempt that
\* passed all three calls verifyFromScreenshot (download, variants,
\* recognition, checkRequirements); a gate that rejects keeps the later gates
\* from running.
C4_GateOrder ==
  /\ [](\A a \in Attempts :
          /\ att[a].ocrCalled => att[a].gate = "pass"
          /\ att[a].gate \in {"invalid", "already", "cooldown"} =>
               /\ ~att[a].ocrCalled
               /\ att[a].result = NoResult
               /\ att[a].pc = "rejected")
  /\ [][\A a \in Attempts :
          /\ ScreenshotArrives(a) =>
               /\ ~att'[a].valid =>
                    /\ att'[a].gate = "invalid"
                    /\ UNCHANGED <<verifiedUsersCache, cooldowns>>
               /\ att'[a].valid /\ VerifiedNow(att'[a].user) =>
                    /\ att'[a].gate = "already"
                    /\ UNCHANGED cooldowns
               /\ att'[a].valid /\ ~VerifiedNow(att'[a].user)
                    /\ OnCooldownNow(att'[a].user) => att'[a].gate = "cooldown"
               /\ att'[a].gate = "pass" =>
                    /\ att'[a].valid
                    /\ ~VerifiedNow(att'[a].user)
                    /\ ~OnCooldownNow(att'[a].user)
               /\ ~att'[a].ocrCalled
          /\ ~att[a].ocrCalled /\ att'[a].ocrCalled => att[a].gate = "pass"]_vars

\* an attempt has passed the gates and called verifyFromScreenshot, and a later
\* attempt of the same actor within the window, with an invalid attachment, is
\* rejected for the attachment
C4_Witness ==
  \E a, b \in Attempts :
    /\ a < b
    /\ att[a].ocrCalled
    /\ att[b].kind = "screenshot"
    /\ att[b].user = att[a].user
    /\ att[b].at - att[a].at < COOLDOWN_MS
    /\ ~att[b].valid
    /\ att[b].gate = "invalid"

\* a is the latest attempt of the actor of b that passed the gates before b
LastPass(a, b) ==
  /\ a < b
  /\ att[a].gate = "pass"
  /\ att[b].user = att[a].user
  /\ \A c \in Attempts : (a < c /\ c < b /\ att[c].user = att[a].user) => att[c].gate # "pass"

\* C19: an attempt that reaches the cooldown check less than COOLDOWN_MS after
\* the latest attempt of its actor that passed the gates is rejected on
\* cooldown, with the positive remaining time COOLDOWN_MS minus the time
\* elapsed; COOLDOWN_MS or more after it, it is admitted; the entry of an actor
\* is the time of its latest attempt that passed: a rejected attempt does not
\* extend the window.
C19_CooldownWindow ==
  /\ \A a, b \in Attempts :
       (LastPass(a, b) /\ att[b].gate \in {"pass", "cooldown"}) =>
         IF att[b].at - att[a].at < COOLDOWN_MS
           THEN /\ att[b].gate = "cooldown"
                /\ att[b].remaining = COOLDOWN_MS - (att[b].at - att[a].at)
                /\ att[b].remaining > 0
           ELSE att[b].gate = "pass"
  /\ \A u \in Users :
       cooldowns[u] # Null =>
         \E a \in Attempts :
           /\ att[a].user = u
           /\ att[a].gate = "pass"
           /\ cooldowns[u] = Some(att[a].at)
           /\ \A c \in Attempts : (a < c /\ att[c].user = u) => att[c].gate # "pass"

\* an attempt was rejected on cooldown half a window after its actor passed
C19_Witness ==
  \E a, b \in Attempts :
    /\ LastPass(a, b)
    /\ att[b].gate = "cooldown"
    /\ att[b].at - att[a].at = TickMs
    /\ att[b].remaining = COOLDOWN_MS - TickMs
    /\ cooldowns[att[a].user] = Some(att[a].at)

\* an attempt was admitted a full window after its actor passed
C19_WitnessAdmitted ==
  \E a, b \in Attempts :
    /\ LastPass(a, b)
    /\ att[b].gate = "pass"
    /\ att[b].at - att[a].at = COOLDOWN_MS


(***************************************************************************)
(* Claims about the administrator subcommands (checked under SpecAdmin)    *)
(***************************************************************************)
\* the command reaches one of the given ends in this step
Ends(c, kind, pcs) ==
  cmd[c].kind = kind /\ cmd[c].pc \notin pcs /\ cmd'[c].pc \in pcs

\* C20: the marker of an actor is in the verified cache once the role is added
\* after a successful verdict for the actor (screenshot or MapleRanks) and once
\* an override of an administrator for the actor is done; it is not in the cache
\* once a /verify unverify of an administrator for the actor has been answered.
C20_CacheLifecycle ==
  [][ /\ \A a \in Attempts :
           att[a].pc = "addingRole" /\ att'[a].pc = "done"
             => att[a].user \in verifiedUsersCache'
      /\ \A c \in Commands :
           Ends(c, "override", {"done", "already"})
             => cmd[c].target \in verifiedUsersCache'
      /\ \A c \in Commands :
           Ends(c, "unverify", {"done", "notVerified"})
             => cmd[c].target \notin verifiedUsersCache' ]_vars

\* the attempt reaches the gates in this step and is answered "already verified"
ReportedVerified(a) == att[a].pc = "new" /\ att'[a].gate = "already"

\* C21: whenever isAlreadyVerified(member) returns true (an attempt is rejected
\* as already verified, or an override is answered "already verified"), the
\* member holds the verified role at that moment: an actor whose role was
\* removed is not reported as verified.
C21_RoleAuthoritative ==
  [][ /\ \A a \in Attempts : ReportedVerified(a) => att'[a].user \in roles
      /\ \A c \in Commands :
           Ends(c, "override", {"already"}) => cmd[c].target \in roles ]_vars

(***************************************************************************)
(* Claims about downloadImage (checked under SpecFetch)                    *)
(***************************************************************************)
Settled == dl.pc \in {"resolved", "rejected"}

\* C22: downloadImage always settles: whatever the server does (redirects
\* without end, no response at all), the returned promise eventually resolves
\* or rejects; and it resolves only on a status of 200.
C22_DownloadSettles ==
  /\ <>Settled
  /\ [](dl.pc = "resolved" => dl.status = 200)

(***************************************************************************)
(* Further claims about the message handlers (checked under Spec)          *)
(***************************************************************************)
\* the attempt of an actor reaches the gates in this step
AtGates(a) == att[a].pc = "new" /\ att'[a].pc # "new" /\ att'[a].user \in Users

\* C23 as stated: the entry of the actor is overwritten with the current time
\* by every attempt of the actor, whether it passes the gates or is rejected
\* as invalid, already verified or on cooldown.
C23_OverwrittenEveryAttempt ==
  [][ \A a \in Attempts :
        AtGates(a) => cooldowns'[att'[a].user] = Some(now) ]_vars

\* C23 (amended): the entry of the actor is written with the current time by
\* every attempt of the actor that passes the three gates, and by no other:
\* an attempt rejected at a gate leaves the whole map as it was, and a passing
\* attempt leaves the entries of the other actors as they were.
C23_OverwrittenOnPass ==
  [][ \A a \in Attempts :
        AtGates(a) =>
          IF att'[a].gate = "pass"
            THEN /\ cooldowns'[att'[a].user] = Some(now)
                 /\ \A u \in Users \ {att'[a].user} : cooldowns'[u] = cooldowns[u]
            ELSE cooldowns' = cooldowns ]_vars

\* an actor passed the gates twice and the entry holds the time of the second
\* pass
C23_Witness ==
  \E a, b \in Attempts :
    /\ a < b
    /\ att[a].user = att[b].user
    /\ att[a].gate = "pass" /\ att[b].gate = "pass"
    /\ att[a].at < att[b].at
    /\ cooldowns[att[b].user] = Some(att[b].at)

(***************************************************************************)
(* Further claims about the pure functions (checked under SpecPure)        *)
(***************************************************************************)
\* the in-range candidates of each heuristic of parseOCRText, taken one
\* heuristic at a time: a number after "lv" or "level" (2-digit readings
\* promoted), a free 3-digit number, the digits after "2 6"
IndicatorCandidates(text) ==
  UNION { Range(LvLevels(ExecAll(pat, AllText(text), 1))) :
            pat \in {"LvThree", "LvTwo", "LevelTwoThree"} }

FreeCandidates(text) ==
  {n \in Range(Ints(ExecAll("ThreeDigits", text, 1))) : n >= 200 /\ n <= 300}

ReconstructedCandidates(text) ==
  {n \in {parseInt(<<"2", "6">> \o cap) : cap \in Range(ExecAll("TwoSix", text, 1))} :
     n >= 260 /\ n <= 269}

Candidates(text) ==
  IndicatorCandidates(text) \cup FreeCandidates(text) \cup ReconstructedCandidates(text)

\* the same for parseOCRText of src/src/ocr.js
Candidates_ocrjs(text) ==
  UNION { {n \in Range(Ints(ExecAll(pat, NormalizedText(text), 1))) : n >= 200 /\ n <= 300} :
            pat \in {"LvDot", "LvColon", "LevelColon", "LvlDot", "MisreadLv",
                     "DigitsThenLv", "Standalone", "ThreeDigits"} }

\* the level is the largest of the candidates, and absent when there is none
LargestOf(level, candidates) ==
  IF candidates = {} THEN level = Null
  ELSE level # Null /\ Val(level) \in candidates /\ \A n \in candidates : n <= Val(level)

\* C24: the level parseOCRText returns is the maximum of the in-range
\* candidates of all its heuristics, whichever heuristic found it and in
\* whatever order they run: it is present whenever some heuristic yields an
\* in-range candidate, and no in-range candidate is larger.
C24_LevelIsMaximum ==
  /\ outp.fn = "parseOCRText" => LargestOf(outp.parsed.level, Candidates(inp.text))
  /\ outp.fn = "parseOCRText_ocrjs"
       => LargestOf(outp.parsed.level, Candidates_ocrjs(inp.text))

\* a text with three different candidates, the largest of them neither the
\* first nor the last collected
C24_Witness ==
  /\ outp.fn = "parseOCRText"
  /\ IndicatorCandidates(inp.text) = {250}
  /\ FreeCandidates(inp.text) = {250, 264}
  /\ 261 \in ReconstructedCandidates(inp.text)
  /\ outp.parsed.level = Some(264)

\* the first digit after an indicator ("lv" or "level") at position s of t,
\* or 0 when s holds no indicator
AfterIndicator(t, s) ==
  IF Lit(t, s, <<"l", "e", "v", "e", "l">>)
    THEN SkipWhile(t, s + 5, {c \in Range(t) : c \notin Digit})
  ELSE IF Lit(t, s, <<"l", "v">>)
    THEN SkipWhile(t, s + 2, {c \in Range(t) : c \notin Digit})
  ELSE 0

\* the numbers of exactly n digits that follow an indicator in t
ReadingsOfLength(t, n) ==
  { parseInt(SubSeq(t, AfterIndicator(t, s), AfterIndicator(t, s) + n - 1)) :
      s \in {p \in 1..Len(t) : /\ AfterIndicator(t, p) > 0
                               /\ DigitsAt(t, AfterIndicator(t, p), n)
                               /\ ~DigitsAt(t, AfterIndicator(t, p), n + 1)} }

\* the first three digits of the numbers of three or more digits that follow
\* an indicator in t
ThreeDigitReadings(t) ==
  { parseInt(SubSeq(t, AfterIndicator(t, s), AfterIndicator(t, s) + 2)) :
      s \in {p \in 1..Len(t) : /\ AfterIndicator(t, p) > 0
                               /\ DigitsAt(t, AfterIndicator(t, p), 3)} }

\* C25: the candidates parseOCRText takes from the numbers after an indicator
\* are the in-range 3-digit readings and, for every reading of exactly two
\* digits in 40..99, 200 + the reading; a 2-digit reading below 40 and the
\* first two digits of a longer number yield no candidate.
C25_NarrowPromotion ==
  outp.fn = "parseOCRText" =>
    IndicatorCandidates(inp.text) =
      {n \in ThreeDigitReadings(AllText(inp.text)) : n >= 200 /\ n <= 300}
        \cup {200 + n : n \in {r \in ReadingsOfLength(AllText(inp.text), 2) :
                                 r >= 40 /\ r <= 99}}

(***************************************************************************)
(* Further claims about the verifier (checked under SpecOcr)               *)
(***************************************************************************)
\* the fields of the embeds of a message whose value is a string and whose
\* name holds one of the given labels
LabeledFields(m, labels) ==
  { f \in UNION {Range(m.embeds[i].fields) : i \in 1..Len(m.embeds)} :
      /\ f.name.type = "string" /\ f.value.type = "string"
      /\ \E label \in labels : includes(toLowerCase(f.name.str), label) }

TagFields(m) == LabeledFields(m, {<<"j", "o", "b">>, <<"c", "l", "a", "s", "s">>})

LevelFields(m) ==
  { f \in LabeledFields(m, {<<"l", "e", "v", "e", "l">>, <<"l", "v">>}) :
      FirstDigits(toLowerCase(f.value.str)) # Null }

\* C26: in the MapleRanks parser labeled fields come before unstructured text:
\* when a message has a job/class field, the tag returned is one that such a
\* field holds, and when it has a level/lv field with a number, the level
\* returned is the number of such a field; description, title and content do
\* not replace them.
C26_FieldsFirst ==
  \A p \in Calls :
    (call[p].pc = "done" /\ call[p].msg # NoMessage /\ call[p].result.error = Null) =>
      /\ (TagFields(call[p].msg) # {} /\ call[p].result.detectedClass # Null) =>
           \E f \in TagFields(call[p].msg) :
             includes(toLowerCase(f.value.str), Val(call[p].result.detectedClass))
      /\ LevelFields(call[p].msg) # {} =>
           \E f \in LevelFields(call[p].msg) :
             call[p].result.detectedLevel = FirstDigits(toLowerCase(f.value.str))

\* roles.add resolves in this step for an attempt of u whose verdict succeeded
\* with the tag kain and a level of at least REQUIRED_LEVEL
Granted(a, u) ==
  /\ att[a].user = u
  /\ att[a].pc = "addingRole" /\ att'[a].pc = "done"
  /\ att[a].gate = "pass"
  /\ att[a].result.success
  /\ att[a].result.detectedClass = Some(kain)
  /\ att[a].result.detectedLevel # Null
  /\ Val(att[a].result.detectedLevel) >= REQUIRED_LEVEL
  /\ u \in roles'

\* C27 as stated: on both paths the role and the cache entry of an actor are
\* added only when roles.add resolves after a successful verdict (tag kain,
\* level >= 240) of an attempt of that actor; no other step of an attempt
\* (rejection at a gate, failed verdict, error) adds either.
C27_OnlyAfterSuccess ==
  [][ \A u \in Users :
        (u \in roles' \ roles \/ u \in verifiedUsersCache' \ verifiedUsersCache)
          => \E a \in Attempts : Granted(a, u) ]_vars

\* C27 (amended): the role is added only when roles.add resolves after a
\* successful verdict of an attempt of the actor; the cache entry is added
\* only then, or at the already-verified gate of an attempt of an actor who
\* holds the role.  A failed role add, a failed verdict and an error add
\* neither.
C27_OnlyAfterSuccessOrRole ==
  [][ \A u \in Users :
        /\ u \in roles' \ roles => \E a \in Attempts : Granted(a, u)
        /\ u \in verifiedUsersCache' \ verifiedUsersCache =>
             \/ \E a \in Attempts : Granted(a, u)
             \/ \E a \in Attempts :
                  /\ AtGates(a) /\ att'[a].user = u
                  /\ att'[a].gate = "already" /\ u \in roles ]_vars

\* an attempt passed the gates, its verdict succeeded and its actor holds the
\* role and is in the cache
C27_Witness ==
  \E a \in Attempts :
    /\ att[a].pc = "done" /\ att[a].gate = "pass" /\ att[a].result.success
    /\ att[a].user \in roles /\ att[a].user \in verifiedUsersCache

\* the attempt has passed the cooldown gate and its verdict is not delivered yet
InFlight(a) == att[a].gate = "pass" /\ att[a].pc \in {"reacting", "ocr"}

\* the attempt has passed the gates and its verdict succeeded
Succeeded(a) ==
  att[a].gate = "pass" /\ att[a].pc \in {"addingRole", "done", "error"}
    /\ att[a].result.success

\* C28: for each actor at most one attempt is between the cooldown gate and its
\* verdict at any moment, and at most one attempt of the actor gets a
\* successful verdict (nothing revokes a verification here), also when the
\* sweep runs and when an attempt is processed for longer than the cooldown
\* window.
C28_OneAtATime ==
  \A a, b \in Attempts :
    (a # b /\ att[a].user = att[b].user) =>
      /\ ~(InFlight(a) /\ InFlight(b))
      /\ ~(Succeeded(a) /\ Succeeded(b))

\* the attempt moves on in this step, after the gates
Proceeds(a) ==
  att[a].pc \in {"reacting", "ocr", "addingRole"} /\ att'[a].pc # att[a].pc

\* C29: the cooldown is consumed at the gate whatever the outcome: no step of
\* an attempt after the gates (verdict, role add, error) changes the cooldown
\* map, and for a full window after an attempt passed its actor is on
\* cooldown, however the attempt ended; an attempt rejected as invalid,
\* already verified or on cooldown leaves the cooldown map and the statistics
\* as they were.
C29_CooldownConsumed ==
  [][ \A a \in Attempts :
        /\ (att'[a].gate = "pass" /\ now' - att'[a].at < COOLDOWN_MS)
             => checkCooldown(cooldowns', att'[a].user, now').onCooldown
        /\ Proceeds(a) => cooldowns' = cooldowns
        /\ (AtGates(a) /\ att'[a].gate \in {"invalid", "already", "cooldown"})
             => (cooldowns' = cooldowns /\ stats' = stats) ]_vars

\* an attempt ended in a failed verdict and half a window later its actor is
\* on cooldown; another attempt was rejected at a gate
C29_Witness ==
  \E a, b \in Attempts :
    /\ att[a].gate = "pass" /\ att[a].pc = "done" /\ ~att[a].result.success
    /\ now - att[a].at = TickMs
    /\ checkCooldown(cooldowns, att[a].user, now).onCooldown
    /\ att[b].pc = "rejected"

\* C30: the statistics are consistent: totalAttempts is the number of attempts
\* that reached the decision stage, which is the number of successful plus
\* failed verifications and the number of screenshot plus MapleRanks
\* verifications.
C30_StatsConsistent ==
  /\ stats.totalAttempts = stats.successfulVerifications + stats.failedVerifications
  /\ stats.totalAttempts = stats.ocrVerifications + stats.mapleRanksVerifications
  /\ stats.totalAttempts =
       Cardinality({a \in Attempts : att[a].gate = "pass" /\ att[a].result # NoResult})

=============================================================================
